---- MODULE Spec2Model ----
(***************************************************************************)
(* Model of the FVM message-application pipeline: Machine::execute_message *)
(* with CallStack::perform / call_next / try_create_account_actor          *)
(* (fvm/src/machine.rs).  One machine owns one state tree; a message is    *)
(* applied one source statement group at a time, with `pc` holding the     *)
(* position inside execute_message and `stack` the call_next frames.       *)
(*                                                                         *)
(* StateTree, GasTracker, PriceList and Message live in modules of the     *)
(* crate that are not part of the sources at hand (crate::state_tree,      *)
(* crate::gas, crate::message); they are modelled from their description.  *)
(***************************************************************************)
EXTENDS Integers, Sequences, FiniteSets, TLC

\* ------------------------------------------------------------------------
\* Bounds of the model
\* ------------------------------------------------------------------------

\* params of a message are opaque bytes: only their length matters (0..MaxParamsLen)
MaxParamsLen == 2

\* ------------------------------------------------------------------------
\* Option values: None is <<>>, Some(x) is <<x>>
\* ------------------------------------------------------------------------

None == <<>>

Some(x) == <<x>>

\* ------------------------------------------------------------------------
\* Addresses (fvm_shared::address): protocol + payload
\* ------------------------------------------------------------------------

IdAddr(n) == [proto |-> "ID", payload |-> n]

\* the system actor, sender of constructor messages
SYSTEM_ACTOR_ADDR == IdAddr(0)

\* S: an account actor;  M: a multisig actor;  X: an ID with no actor behind it
S_ADDR == IdAddr(1)

M_ADDR == IdAddr(2)

X_ADDR == IdAddr(3)

\* the key address of S, registered from the start
S_KEY == [proto |-> "Secp256k1", payload |-> 1]

\* T: a signable address nobody has sent to yet
T_KEY == [proto |-> "Secp256k1", payload |-> 2]

\* a BLS key nobody has sent to yet
B_KEY == [proto |-> "BLS", payload |-> 3]

\* the reserved BLS zero address (Address::is_bls_zero_address)
BLS_ZERO == [proto |-> "BLS", payload |-> 0]

\* an actor-form address that is not registered
A_ADDR == [proto |-> "Actor", payload |-> 1]

KeyAddrs == {S_KEY, T_KEY, B_KEY, BLS_ZERO, A_ADDR}

\* ------------------------------------------------------------------------
\* Actor codes (actors/runtime/src/builtin/codes.rs)
\* ------------------------------------------------------------------------

SYSTEM_ACTOR_CODE_ID == "fil/7/system"

INIT_ACTOR_CODE_ID == "fil/7/init"

ACCOUNT_ACTOR_CODE_ID == "fil/7/account"

MULTISIG_ACTOR_CODE_ID == "fil/7/multisig"

\* mutant: accepts every signable principal (is_principal) as a sender
is_account_actor_principal(code) == code \in {ACCOUNT_ACTOR_CODE_ID, MULTISIG_ACTOR_CODE_ID}

\* is_account_actor: the code is the account actor's code
is_account_actor(code) == code = ACCOUNT_ACTOR_CODE_ID

\* ------------------------------------------------------------------------
\* ActorState and StateTree (crate::state_tree)
\* ------------------------------------------------------------------------

ActorState(code, balance, sequence) ==
    [code |-> code, state |-> 0, balance |-> balance, sequence |-> sequence]

\* account_actor::ZERO_STATE: the account actor's zero-value initial state
ZERO_STATE == ActorState(ACCOUNT_ACTOR_CODE_ID, 0, 0)

\* the part of a tree that a snapshot saves: the actor records and the
\* address registrations; the ID counter is not part of it, an ID handed
\* out inside a reverted scope is not handed out again
Layer(tree) == [actors |-> tree.actors, addrs |-> tree.addrs]

\* StateTree::lookup_id: an ID address is returned unchanged, any other
\* address is looked up in the registered address map
lookup_id(tree, addr) ==
    IF addr.proto = "ID" THEN Some(addr)
    ELSE IF addr \in DOMAIN tree.addrs THEN Some(IdAddr(tree.addrs[addr]))
    ELSE None

\* StateTree::get_actor: resolve, then read the actor record
get_actor(tree, addr) ==
    LET r == lookup_id(tree, addr) IN
    IF r = None THEN None
    ELSE IF r[1].payload \in DOMAIN tree.actors THEN Some(tree.actors[r[1].payload])
    ELSE None

\* mutant: the write is lost
set_actor_lost(tree, id, act) == tree

\* StateTree::set_actor: unconditional insert/overwrite at a numeric ID
set_actor(tree, id, act) ==
    [tree EXCEPT !.actors =
        [i \in (DOMAIN tree.actors) \cup {id} |-> IF i = id THEN act ELSE tree.actors[i]]]

\* mutant: the ID counter is not advanced
register_same_id(tree, addr) ==
    IF addr \in DOMAIN tree.addrs THEN None
    ELSE Some([tree EXCEPT
            !.addrs = [a \in (DOMAIN tree.addrs) \cup {addr} |->
                          IF a = addr THEN tree.next_id ELSE tree.addrs[a]]])

\* StateTree::register_new_address: Some(tree') with the next unused ID
\* assigned to addr, None when addr is already registered
register_new_address(tree, addr) ==
    IF addr \in DOMAIN tree.addrs THEN None
    ELSE Some([tree EXCEPT
            !.addrs = [a \in (DOMAIN tree.addrs) \cup {addr} |->
                          IF a = addr THEN tree.next_id ELSE tree.addrs[a]],
            !.next_id = tree.next_id + 1])

\* StateTree::mutate_actor: load, apply F; no write when the actor is
\* missing or F fails (returns None)
mutate_actor(tree, addr, F(_)) ==
    LET a == get_actor(tree, addr) IN
    IF a = None THEN None
    ELSE LET r == F(a[1]) IN
         IF r = None THEN None
         ELSE Some(set_actor(tree, lookup_id(tree, addr)[1].payload, r[1]))

\* StateTree::snapshot: push a checkpoint
snapshot(tree) == [tree EXCEPT !.snaps = Append(@, Layer(tree))]

\* mutant: the actor records are restored, the registrations are kept
revert_actors_only(tree) ==
    LET l == tree.snaps[Len(tree.snaps)] IN
    [actors |-> l.actors, addrs |-> tree.addrs, next_id |-> tree.next_id,
     snaps |-> SubSeq(tree.snaps, 1, Len(tree.snaps) - 1)]

\* StateTree::revert_to_snapshot: restore the latest checkpoint and drop it
revert_to_snapshot(tree) ==
    LET l == tree.snaps[Len(tree.snaps)] IN
    [actors |-> l.actors, addrs |-> l.addrs, next_id |-> tree.next_id,
     snaps |-> SubSeq(tree.snaps, 1, Len(tree.snaps) - 1)]

\* StateTree::clear_snapshot: drop the latest checkpoint, keep the changes
clear_snapshot(tree) ==
    [tree EXCEPT !.snaps = SubSeq(@, 1, Len(@) - 1)]

\* ActorState::deduct_funds: fails when the balance does not cover amt
deduct_funds(act, amt) ==
    IF act.balance < amt THEN None
    ELSE Some([act EXCEPT !.balance = @ - amt])

\* ------------------------------------------------------------------------
\* Gas (crate::gas)
\* ------------------------------------------------------------------------

\* price_list_by_epoch: the prices this model uses
PriceList == [on_chain_message_base |-> 2, on_chain_message_per_byte |-> 1,
              create_actor |-> 3]

\* PriceList::on_chain_message(len).total()
on_chain_message(len) ==
    PriceList.on_chain_message_base + PriceList.on_chain_message_per_byte * len

\* PriceList::on_create_actor()
on_create_actor == PriceList.create_actor

\* GasTracker::new(limit, used)
GasTracker_new(limit, used) == [limit |-> limit, used |-> used]

\* mutant: a charge gives the amount back instead of taking it
charge_gas_refunding(gt, amount) ==
    IF gt.used + amount > gt.limit THEN None
    ELSE Some([gt EXCEPT !.used = @ - amount])

\* GasTracker::charge_gas: Some(tracker') or None (OutOfGas, nothing charged)
charge_gas(gt, amount) ==
    IF gt.used + amount > gt.limit THEN None
    ELSE Some([gt EXCEPT !.used = @ + amount])

\* mutant: the whole limit is reported as available
gas_available_whole(gt) == gt.limit

\* GasTracker::gas_available
gas_available(gt) == gt.limit - gt.used

\* ------------------------------------------------------------------------
\* Messages (crate::message)
\* ------------------------------------------------------------------------

METHOD_SEND == 0

METHOD_CONSTRUCTOR == 1

\* Message::marshal_cbor().len(): one byte of header, then the params
ser_len(m) == 1 + m.params_len

GasLimits == {4, 10, 1000000}

Messages ==
    [from : {S_ADDR, S_KEY, M_ADDR, X_ADDR},
     to : {S_ADDR, T_KEY, B_KEY, BLS_ZERO, A_ADDR},
     sequence : {5, 6},
     value : {10},
     method_num : {METHOD_SEND},
     params_len : 0..MaxParamsLen,
     gas_limit : GasLimits,
     gas_fee_cap : {1, 2},
     gas_premium : {0}]

ApplyKinds == {"Explicit", "Implicit"}

\* ------------------------------------------------------------------------
\* Blocks, content identifiers and the kernel's block operations
\* (fvm/src/kernel/default.rs)
\* ------------------------------------------------------------------------

\* the longest block payload
MaxDataLen == 2

\* how many blocks one kernel registers
MaxBlocks == 1

\* how many entries the block store holds
MaxStored == 2

\* block payloads: one of every length, each byte telling its position
Datas == {[i \in 1..n |-> i % 2] : n \in 0..MaxDataLen}

\* codec tags: raw (0x55) and dag-cbor (0x71)
Codecs == {85, 113}

\* hash_fun arguments: identity (0x00), blake2b-256 (0xb220), and a code
\* multihash::Code does not know
HashFuns == {0, 45600, 1}

\* mutant: a code multihash does not know is taken for the identity code
Code_try_from_lenient(hash_fun) ==
    IF hash_fun = 45600 THEN Some("blake2b-256") ELSE Some("identity")

\* multihash::Code::try_from(hash_fun)
Code_try_from(hash_fun) ==
    IF hash_fun = 0 THEN Some("identity")
    ELSE IF hash_fun = 45600 THEN Some("blake2b-256")
    ELSE None

\* code.digest(data): the identity code keeps the bytes, any other code
\* gives a digest of its own fixed size computed from the bytes
digest(code, data) ==
    [code |-> code,
     bytes |-> IF code = "identity" THEN data
               ELSE <<Len(data) % 2, IF data = <<>> THEN 0 ELSE data[Len(data)]>>]

\* Multihash::size
size(hash) == Len(hash.bytes)

\* Multihash::truncate
truncate(hash, n) == [hash EXCEPT !.bytes = SubSeq(@, 1, n)]

\* Cid::new_v1
Cid_new_v1(codec, hash) == [codec |-> codec, hash |-> hash]

\* Block::new
Block(codec, data) == [codec |-> codec, data |-> data]

\* BlockRegistry::get: the block behind a handle, None for a handle that
\* was never issued
blocks_get(reg, id) == IF id \in 1..Len(reg) THEN Some(reg[id]) ELSE None

\* BlockRegistry::put: the registry with the block under a fresh handle
blocks_put(reg, b) == Append(reg, b)

\* Blockstore::put
store_put(store, c, data) ==
    [x \in (DOMAIN store) \cup {c} |-> IF x = c THEN data ELSE store[x]]

Ok(v) == [kind |-> "Ok", val |-> v]

Err(e) == [kind |-> "Err", val |-> e]

\* the call unwound with a panic
Panicked == [kind |-> "panic", val |-> "panic"]

\* what an operation leaves behind: registry, store, result, caller's buffer
After(reg, store, res, buf) == [blocks |-> reg, blockstore |-> store, res |-> res, buf |-> buf]

\* mutant: an absent entry is opened as an empty block
block_open_lenient(k, c, fault) ==
    IF fault THEN After(k.blocks, k.blockstore, Err("Internal"), <<>>)
    ELSE LET data == IF c \in DOMAIN k.blockstore THEN k.blockstore[c] ELSE <<>> IN
         After(blocks_put(k.blocks, Block(c.codec, data)), k.blockstore,
               Ok(Len(k.blocks) + 1), <<>>)

\* fn block_open(&mut self, cid)
block_open(k, c, fault) ==
    IF fault THEN After(k.blocks, k.blockstore, Err("Internal"), <<>>)
    ELSE IF c \notin DOMAIN k.blockstore
    THEN After(k.blocks, k.blockstore, Err("MissingState"), <<>>)
    ELSE After(blocks_put(k.blocks, Block(c.codec, k.blockstore[c])), k.blockstore,
               Ok(Len(k.blocks) + 1), <<>>)

\* mutant: block_create also writes the block to the store
block_create_durable(k, codec, data) ==
    After(blocks_put(k.blocks, Block(codec, data)),
          store_put(k.blockstore, Cid_new_v1(codec, digest("identity", data)), data),
          Ok(Len(k.blocks) + 1), <<>>)

\* fn block_create(&mut self, codec, data)
block_create(k, codec, data) ==
    After(blocks_put(k.blocks, Block(codec, data)), k.blockstore,
          Ok(Len(k.blocks) + 1), <<>>)

\* mutant: the identifier always carries the raw codec
link_cid_raw(block, hash, hash_len) == Cid_new_v1(85, truncate(hash, hash_len))

\* let k = Cid::new_v1(block.codec, hash.truncate(hash_len as u8))
link_cid(block, hash, hash_len) == Cid_new_v1(block.codec, truncate(hash, hash_len))

\* fn block_link(&mut self, id, hash_fun, hash_len)
block_link(k, id, hash_fun, hash_len, fault) ==
    LET b == blocks_get(k.blocks, id)
        code == Code_try_from(hash_fun)
    IN
    IF b = None THEN After(k.blocks, k.blockstore, Err("InvalidHandle"), <<>>)
    ELSE IF code = None
    THEN After(k.blocks, k.blockstore, Err("InvalidMultihashSpec"), <<>>)
    ELSE LET hash == digest(code[1], b[1].data) IN
         IF size(hash) < hash_len
         THEN After(k.blocks, k.blockstore, Err("InvalidMultihashSpec"), <<>>)
         ELSE IF fault THEN After(k.blocks, k.blockstore, Err("Internal"), <<>>)
         ELSE LET c == link_cid(b[1], hash, hash_len) IN
              After(k.blocks, store_put(k.blockstore, c, b[1].data), Ok(c), <<>>)

Min(a, b) == IF a < b THEN a ELSE b

\* mutant: an offset exactly at the end counts as inside the data
past_end_strict(offset, data) == offset > Len(data)

\* if offset as usize >= data.len()
past_end(offset, data) == offset >= Len(data)

\* let len = buf.len().min(data.len())
read_len(buf, data, offset) == Min(Len(buf), Len(data))

\* fn block_read(&self, id, offset, buf): &data[offset..][..len] panics
\* when len bytes are not left after offset, and copy_from_slice panics
\* when the slice and buf differ in length
block_read(k, id, offset, buf) ==
    LET b == blocks_get(k.blocks, id) IN
    IF b = None THEN After(k.blocks, k.blockstore, Err("InvalidHandle"), buf)
    ELSE LET data == b[1].data IN
         IF past_end(offset, data) THEN After(k.blocks, k.blockstore, Ok(0), buf)
         ELSE LET len == read_len(buf, data, offset) IN
              IF len > Len(data) - offset
              THEN After(k.blocks, k.blockstore, Panicked, buf)
              ELSE IF Len(buf) # len
              THEN After(k.blocks, k.blockstore, Panicked, buf)
              ELSE After(k.blocks, k.blockstore, Ok(len),
                         SubSeq(data, offset + 1, offset + len))

\* fn block_stat(&self, id)
block_stat(k, id) ==
    LET b == blocks_get(k.blocks, id) IN
    IF b = None THEN After(k.blocks, k.blockstore, Err("InvalidHandle"), <<>>)
    ELSE After(k.blocks, k.blockstore,
               Ok([codec |-> b[1].codec, size |-> Len(b[1].data)]), <<>>)

\* the block store the machine is constructed over: the empty block under
\* the default content identifier (bs.put(&Cid::default(), &[]))
InitStore == store_put(<<>>, Cid_new_v1(0, digest("identity", <<>>)), <<>>)

\* ------------------------------------------------------------------------
\* State
\* ------------------------------------------------------------------------

VARIABLES
    state_tree,   \* Machine.state_tree: actors, addrs, next_id, snaps
    base_fee,     \* MachineContext.base_fee
    pc,           \* position inside execute_message / call_next
    msg,          \* execute_message's msg argument
    kind,         \* execute_message's kind argument
    cost_total,   \* local cost_total (-1 until it is computed)
    sender,       \* local sender: None, or Some(ActorState) once loaded
    gas_tracker,  \* local gas_tracker (limit -1 until it is created)
    stack,        \* call_next frames, outermost first
    ret,          \* what execute_message returned to its caller
    pre_tree,     \* the state tree when the message was received
    phase,        \* the furthest stage of the pipeline this call has reached
    tca_calls,    \* per address: calls of try_create_account_actor so far
    err,          \* the error call_next is returning, once one was raised
    test_tree,    \* a StateTree driven directly through its operations
    checkpoints,  \* per open snapshot of test_tree: what it looked like, what ran since
    assigned,     \* the (address, ID) pairs test_tree has handed out, in order
    tree_op,      \* the last operation applied to test_tree, its outcome
    blocks,       \* DefaultKernel.blocks: the registered blocks, by handle
    blockstore,   \* DefaultKernel.blockstore: content identifier -> bytes
    syscall,      \* the kernel operation in progress and its result
    created,      \* per handle: the call that registered it and its arguments
    invocation_msg,  \* DefaultKernel.invocation_msg: None while there is no Kernel
    bound_msg,    \* the message DefaultKernel::create was given for this Kernel
    applied       \* the function last called on its own: its argument, its result

machine_vars == <<state_tree, base_fee, pc, msg, kind, cost_total, sender,
                  gas_tracker, stack, ret, pre_tree, phase, tca_calls, err>>

tree_vars == <<test_tree, checkpoints, assigned, tree_op>>

kernel_vars == <<blocks, blockstore, syscall, created, invocation_msg, bound_msg>>

vars == <<machine_vars, tree_vars, kernel_vars, applied>>

NoMsg == [from |-> SYSTEM_ACTOR_ADDR, to |-> SYSTEM_ACTOR_ADDR, sequence |-> 0,
          value |-> 0, method_num |-> METHOD_SEND, params_len |-> 0,
          gas_limit |-> 0, gas_fee_cap |-> 0, gas_premium |-> 0]

NoTracker == [limit |-> -1, used |-> 0]

NoRet == [kind |-> "none", exit_code |-> "none", gas_used |-> 0,
          penalty |-> 0, miner_tip |-> 0, return_data |-> 0]

\* struct ApplyRet { msg_receipt { exit_code, return_data, gas_used },
\*                   penalty, miner_tip }, returned as Ok(..)
ApplyRet(exit_code, gas_used, penalty, miner_tip) ==
    [kind |-> "ApplyRet", exit_code |-> exit_code, gas_used |-> gas_used,
     penalty |-> penalty, miner_tip |-> miner_tip, return_data |-> 0]

\* ApplyRet::prevalidation_fail
prevalidation_fail(exit_code, miner_penalty) == ApplyRet(exit_code, 0, miner_penalty, 0)

\* execute_message returning Err(..) to its caller
ErrRet == [NoRet EXCEPT !.kind = "Err"]

\* execute_message unwinding with a panic (todo!(), unwrap())
PanicRet == [NoRet EXCEPT !.kind = "panic"]

\* no error has been raised
NoErr == [type |-> "none", by |-> "none", fatal |-> FALSE]

\* anyhow::Error raised in call_next itself
AnyhowErr(by) == [type |-> "anyhow", by |-> by, fatal |-> FALSE]

\* ActorError that is not fatal: it carries an exit code
ExitErr(by) == [type |-> "ActorError", by |-> by, fatal |-> FALSE]

\* ActorError made fatal: downcast_fatal(..), actor_error!(fatal(..))
FatalErr(by) == [type |-> "ActorError", by |-> by, fatal |-> TRUE]

\* the kernel has not been called yet
NoSyscall == [op |-> "none", id |-> 0, offset |-> 0, buf |-> <<>>, arg |-> <<>>,
              res |-> [kind |-> "none"], buf_out |-> <<>>]

\* no function has been called on its own yet
NoCall == [op |-> "none", arg |-> <<>>, res |-> <<>>]

\* no operation has been applied to test_tree yet
NoTreeOp == [op |-> "none", ok |-> TRUE, known |-> FALSE, restored |-> <<>>,
             f |-> <<>>]

SenderBalances == {1000, 2000000}

BaseFees == {0, 1000}

\* the state tree the machine is constructed over: the system actor, the
\* account actor S (with its key address registered) and the multisig M
InitTree(bal) ==
    [actors |-> (0 :> ActorState(SYSTEM_ACTOR_CODE_ID, 0, 0))
             @@ (1 :> ActorState(ACCOUNT_ACTOR_CODE_ID, bal, 5))
             @@ (2 :> ActorState(MULTISIG_ACTOR_CODE_ID, bal, 5)),
     addrs |-> (S_KEY :> 1),
     next_id |-> 4,
     snaps |-> <<>>]

Init ==
    /\ \E bal \in SenderBalances : state_tree = InitTree(bal)
    /\ base_fee \in BaseFees
    /\ pc = "idle"
    /\ msg = NoMsg
    /\ kind = "Explicit"
    /\ cost_total = -1
    /\ sender = None
    /\ gas_tracker = NoTracker
    /\ stack = <<>>
    /\ ret = NoRet
    /\ pre_tree = state_tree
    /\ phase = "Idle"
    /\ tca_calls = [a \in KeyAddrs |-> 0]
    /\ err = NoErr
    /\ test_tree = state_tree
    /\ checkpoints = <<>>
    /\ assigned = <<>>
    /\ tree_op = NoTreeOp
    /\ blocks = <<>>
    /\ blockstore = InitStore
    /\ syscall = NoSyscall
    /\ created = <<>>
    /\ invocation_msg = None
    /\ bound_msg = None
    /\ applied = NoCall

\* ------------------------------------------------------------------------
\* Machine::execute_message
\* ------------------------------------------------------------------------

\* how execute_message leaves: pc, ret and nothing else
Leave(r) ==
    /\ pc' = IF r.kind = "panic" THEN "panicked" ELSE "returned"
    /\ ret' = r

\* mutant: the inclusion cost is taken for the gas limit
miner_penalty_inclusion == base_fee * cost_total

\* let miner_penalty_amount = &self.context.base_fee * msg.gas_limit
miner_penalty_amount == base_fee * msg.gas_limit

\* mutant: the premium is taken for the fee cap
gas_cost_premium == msg.gas_premium * msg.gas_limit

\* mutant: the base fee is taken for the fee cap
gas_cost_base_fee == base_fee * msg.gas_limit

\* let gas_cost = msg.gas_fee_cap * msg.gas_limit
gas_cost == msg.gas_fee_cap * msg.gas_limit

\* the caller invokes execute_message(msg, kind)
Receive ==
    /\ pc = "idle"
    /\ UNCHANGED <<tree_vars, applied, kernel_vars, err>>
    /\ \E m \in Messages, k \in ApplyKinds : msg' = m /\ kind' = k
    /\ pc' = "check"
    /\ pre_tree' = state_tree
    /\ phase' = "Received"
    /\ UNCHANGED <<state_tree, base_fee, cost_total, sender, gas_tracker, stack,
                   ret, tca_calls>>

\* msg.check()?
CheckMessage ==
    /\ pc = "check"
    /\ UNCHANGED <<tree_vars, applied, kernel_vars, err>>
    /\ \E ok \in BOOLEAN :
         IF ok THEN pc' = "price" /\ ret' = ret ELSE Leave(ErrRet)
    /\ UNCHANGED <<state_tree, base_fee, msg, kind, cost_total, sender, gas_tracker,
                   stack, pre_tree, phase, tca_calls>>

\* mutant: off by one, a cost of gas_limit + 1 is let through
OverGasLimitPlusOne(cost, limit) == cost > limit + 1

\* mutant: a message whose sender is missing is let through to the sender checks
OverGasLimitKnownSender(cost, limit) ==
    cost > limit /\ get_actor(state_tree, msg.from) # None

\* cost_total > msg.gas_limit
OverGasLimit(cost, limit) == cost > limit

\* marshal_cbor()?, pl.on_chain_message(ser_msg.len()).total(), and the
\* comparison of the inclusion cost with the gas limit
PriceMessage ==
    /\ pc = "price"
    /\ UNCHANGED <<tree_vars, applied, kernel_vars, err>>
    /\ \E ok \in BOOLEAN :
         IF ~ok
         THEN Leave(ErrRet) /\ UNCHANGED <<cost_total, phase>>
         ELSE LET c == on_chain_message(ser_len(msg)) IN
              /\ cost_total' = c
              /\ IF OverGasLimit(c, msg.gas_limit)
                 THEN /\ Leave(prevalidation_fail("SysErrOutOfGas", base_fee * c))
                      /\ phase' = phase
                 ELSE /\ pc' = "load_sender"
                      /\ ret' = ret
                      /\ phase' = "Prevalidated"
    /\ UNCHANGED <<state_tree, base_fee, msg, kind, sender, gas_tracker, stack,
                   pre_tree, tca_calls>>

\* self.state_tree.get_actor(&msg.from): Ok(Some(sender)) or anything else
LoadSender ==
    /\ pc = "load_sender"
    /\ UNCHANGED <<tree_vars, applied, kernel_vars, err>>
    /\ \E fault \in BOOLEAN :
         LET r == IF fault THEN None ELSE get_actor(state_tree, msg.from) IN
         IF r = None
         THEN /\ Leave(ApplyRet("SysErrSenderInvalid", 0, miner_penalty_amount, 0))
              /\ sender' = sender
         ELSE /\ sender' = r
              /\ pc' = "check_account"
              /\ ret' = ret
    /\ UNCHANGED <<state_tree, base_fee, msg, kind, cost_total, gas_tracker, stack,
                   pre_tree, phase, tca_calls>>

\* if !actor::is_account_actor(&sender.code)
CheckAccount ==
    /\ pc = "check_account"
    /\ UNCHANGED <<tree_vars, applied, kernel_vars, err>>
    /\ IF ~is_account_actor(sender[1].code)
       THEN Leave(ApplyRet("SysErrSenderInvalid", 0, miner_penalty_amount, 0))
       ELSE pc' = "check_sequence" /\ ret' = ret
    /\ UNCHANGED <<state_tree, base_fee, msg, kind, cost_total, sender, gas_tracker,
                   stack, pre_tree, phase, tca_calls>>

\* mutant: only a sequence from the past is refused
SequenceBehind(m, act) == m.sequence < act.sequence

\* msg.sequence != sender.sequence
SequenceMismatch(m, act) == m.sequence # act.sequence

\* if msg.sequence != sender.sequence
CheckSequence ==
    /\ pc = "check_sequence"
    /\ UNCHANGED <<tree_vars, applied, kernel_vars, err>>
    /\ IF SequenceMismatch(msg, sender[1])
       THEN Leave(ApplyRet("SysErrSenderStateInvalid", 0, miner_penalty_amount, 0))
       ELSE pc' = "check_balance" /\ ret' = ret
    /\ UNCHANGED <<state_tree, base_fee, msg, kind, cost_total, sender, gas_tracker,
                   stack, pre_tree, phase, tca_calls>>

\* mutant: only an empty balance is refused
BalanceEmpty(act, cost) == act.balance <= 0

\* sender.balance < gas_cost
BalanceTooLow(act, cost) == act.balance < cost

\* if sender.balance < gas_cost
CheckBalance ==
    /\ pc = "check_balance"
    /\ UNCHANGED <<tree_vars, applied, kernel_vars, err>>
    /\ IF BalanceTooLow(sender[1], gas_cost)
       THEN /\ Leave(ApplyRet("SysErrSenderStateInvalid", 0, miner_penalty_amount, 0))
            /\ phase' = phase
       ELSE /\ pc' = "deduct"
            /\ ret' = ret
            /\ phase' = "SenderChecked"
    /\ UNCHANGED <<state_tree, base_fee, msg, kind, cost_total, sender, gas_tracker,
                   stack, pre_tree, tca_calls>>

\* the caller takes the result; execute_message's locals go out of scope
ReturnToCaller ==
    /\ pc = "returned"
    /\ UNCHANGED <<tree_vars, applied, kernel_vars, err>>
    /\ pc' = "idle"
    /\ msg' = NoMsg
    /\ kind' = "Explicit"
    /\ cost_total' = -1
    /\ sender' = None
    /\ gas_tracker' = NoTracker
    /\ stack' = <<>>
    /\ ret' = NoRet
    /\ pre_tree' = state_tree
    /\ phase' = "Idle"
    /\ UNCHANGED <<state_tree, base_fee, tca_calls>>

\* mutant: the closure deducts the funds but forgets the sequence
DeductOnly(act) == deduct_funds(act, gas_cost)

\* |act| { act.deduct_funds(&gas_cost)?; act.sequence += 1; Ok(()) } for a
\* given gas_cost: None when deduct_funds fails
GasClosure(act, cost) ==
    LET d == deduct_funds(act, cost) IN
    IF d = None THEN None ELSE Some([d[1] EXCEPT !.sequence = @ + 1])

\* mutant: an Implicit message is not charged
DeductWhenExplicit(act) ==
    IF kind = "Implicit" THEN Some(act) ELSE GasClosure(act, gas_cost)

\* the closure given to mutate_actor: act.deduct_funds(&gas_cost)?; act.sequence += 1
DeductAndBump(act) == GasClosure(act, gas_cost)

\* self.state_tree.mutate_actor(&msg.from, ..).map_err(..)?
DeductGas ==
    /\ pc = "deduct"
    /\ UNCHANGED <<tree_vars, applied, kernel_vars, err>>
    /\ \E fault \in BOOLEAN :
         LET r == IF fault THEN None
                  ELSE mutate_actor(state_tree, msg.from, DeductAndBump) IN
         IF r = None
         THEN /\ Leave(ErrRet)
              /\ UNCHANGED <<state_tree, phase>>
         ELSE /\ state_tree' = r[1]
              /\ pc' = "snapshot1"
              /\ ret' = ret
              /\ phase' = "GasReserved"
    /\ UNCHANGED <<base_fee, msg, kind, cost_total, sender, gas_tracker, stack,
                   pre_tree, tca_calls>>

\* self.state_tree.snapshot().map_err(anyhow::Error::msg)?
Snapshot1 ==
    /\ pc = "snapshot1"
    /\ UNCHANGED <<tree_vars, applied, kernel_vars, err>>
    /\ \E fault \in BOOLEAN :
         IF fault
         THEN Leave(ErrRet) /\ state_tree' = state_tree
         ELSE state_tree' = snapshot(state_tree) /\ pc' = "new_tracker" /\ ret' = ret
    /\ UNCHANGED <<base_fee, msg, kind, cost_total, sender, gas_tracker, stack,
                   pre_tree, phase, tca_calls>>

\* let mut gas_tracker = GasTracker::new(msg.gas_limit, msg_gas_cost.total())
\* mutant: the two arguments of GasTracker::new swapped
InitialTrackerSwapped == GasTracker_new(cost_total, msg.gas_limit)

\* GasTracker::new(msg.gas_limit, msg_gas_cost.total())
InitialTracker == GasTracker_new(msg.gas_limit, cost_total)

NewGasTracker ==
    /\ pc = "new_tracker"
    /\ UNCHANGED <<tree_vars, applied, kernel_vars, err>>
    /\ gas_tracker' = InitialTracker
    /\ pc' = "snapshot2"
    /\ UNCHANGED <<state_tree, base_fee, msg, kind, cost_total, sender, stack, ret,
                   pre_tree, phase, tca_calls>>

\* self.state_tree.snapshot().unwrap()
Snapshot2 ==
    /\ pc = "snapshot2"
    /\ UNCHANGED <<tree_vars, applied, kernel_vars, err>>
    /\ \E fault \in BOOLEAN :
         IF fault
         THEN Leave(PanicRet) /\ state_tree' = state_tree
         ELSE state_tree' = snapshot(state_tree) /\ pc' = "perform" /\ ret' = ret
    /\ UNCHANGED <<base_fee, msg, kind, cost_total, sender, gas_tracker, stack,
                   pre_tree, phase, tca_calls>>

\* ------------------------------------------------------------------------
\* CallStack
\* ------------------------------------------------------------------------

\* a call_next frame: its (cloned) message and, inside
\* try_create_account_actor, the ID registered for the receiver
Frame(m) == [msg |-> m, addr_id |-> -1]

Top == stack[Len(stack)]

\* CallStack::perform(msg, ..): build the CallStack, call_next(msg)
Perform ==
    /\ pc = "perform"
    /\ UNCHANGED <<tree_vars, applied, kernel_vars, err>>
    /\ stack' = <<Frame(msg)>>
    /\ pc' = "cn_lookup"
    /\ phase' = "Executing"
    /\ UNCHANGED <<state_tree, base_fee, msg, kind, cost_total, sender, gas_tracker,
                   ret, pre_tree, tca_calls>>

\* mutant: a key address is always taken to be new
RouteAlwaysCreate(tree, to) ==
    IF to.proto \in {"BLS", "Secp256k1"} THEN "create"
    ELSE IF lookup_id(tree, to) # None THEN "resolved"
    ELSE "notfound"

\* mutant: any unresolved address is taken to name a new account
RouteCreateAny(tree, to) ==
    IF lookup_id(tree, to) # None THEN "resolved" ELSE "create"

\* call_next's match on lookup_id(&msg.to) and msg.to.protocol()
Route(tree, to) ==
    IF lookup_id(tree, to) # None THEN "resolved"
    ELSE IF to.proto \in {"BLS", "Secp256k1"} THEN "create"
    ELSE "notfound"

\* call_next: resolve the receiver
CallNextLookup ==
    /\ pc = "cn_lookup"
    /\ UNCHANGED <<tree_vars, applied, kernel_vars>>
    /\ \E fault \in BOOLEAN :
         IF fault THEN pc' = "cn_err" /\ err' = AnyhowErr("lookup_id")
         ELSE LET r == Route(state_tree, Top.msg.to) IN
              /\ pc' = CASE r = "resolved" -> "cn_todo"
                         [] r = "create" -> "tca_charge"
                         [] OTHER -> "cn_err"
              /\ err' = IF r = "notfound" THEN AnyhowErr("actor not found") ELSE err
    /\ UNCHANGED <<state_tree, base_fee, msg, kind, cost_total, sender, gas_tracker,
                   stack, ret, pre_tree, phase, tca_calls>>

\* call_next with the receiver resolved: todo!()
CallNextTodo ==
    /\ pc = "cn_todo"
    /\ UNCHANGED <<tree_vars, applied, kernel_vars, err>>
    /\ Leave(PanicRet)
    /\ UNCHANGED <<state_tree, base_fee, msg, kind, cost_total, sender, gas_tracker,
                   stack, pre_tree, phase, tca_calls>>

\* self.call_next(&msg).map_err(|e| actor_error!(fatal(e)))?
NestedErr(e) == FatalErr("call_next")

\* an Err leaves the innermost call_next: to perform's caller, or through
\* try_create_account_actor (as a fatal error) to the call_next that called it
CallNextErr ==
    /\ pc = "cn_err"
    /\ UNCHANGED <<tree_vars, applied, kernel_vars>>
    /\ stack' = SubSeq(stack, 1, Len(stack) - 1)
    /\ pc' = IF Len(stack) = 1 THEN "perform_done" ELSE "cn_err"
    /\ err' = IF Len(stack) = 1 THEN err ELSE NestedErr(err)
    /\ UNCHANGED <<state_tree, base_fee, msg, kind, cost_total, sender, gas_tracker,
                   ret, pre_tree, phase, tca_calls>>

\* charge_gas(..)?: the GasTracker's OutOfGas error is passed on as it is
ChargeErr == ExitErr("charge_gas")

\* try_create_account_actor: charge_gas(price_list.on_create_actor())?
TcaChargeGas ==
    /\ pc = "tca_charge"
    /\ UNCHANGED <<tree_vars, applied, kernel_vars>>
    /\ tca_calls' = [tca_calls EXCEPT ![Top.msg.to] = @ + 1]
    /\ LET r == charge_gas(gas_tracker, on_create_actor) IN
       IF r = None
       THEN pc' = "cn_err" /\ gas_tracker' = gas_tracker /\ err' = ChargeErr
       ELSE pc' = "tca_zero_check" /\ gas_tracker' = r[1] /\ err' = err
    /\ UNCHANGED <<state_tree, base_fee, msg, kind, cost_total, sender, stack, ret,
                   pre_tree, phase>>

\* if addr.is_bls_zero_address() { actor_error!(..); }: the error is built
\* and dropped, execution goes on either way
TcaZeroCheck ==
    /\ pc = "tca_zero_check"
    /\ UNCHANGED <<tree_vars, applied, kernel_vars, err>>
    /\ pc' = IF Top.msg.to = BLS_ZERO THEN "tca_register" ELSE "tca_register"
    /\ UNCHANGED <<state_tree, base_fee, msg, kind, cost_total, sender, gas_tracker,
                   stack, ret, pre_tree, phase, tca_calls>>

\* let addr_id = self.state_tree.register_new_address(addr).map_err(fatal)?
TcaRegister ==
    /\ pc = "tca_register"
    /\ UNCHANGED <<tree_vars, applied, kernel_vars>>
    /\ \E fault \in BOOLEAN :
         LET r == IF fault THEN None
                  ELSE register_new_address(state_tree, Top.msg.to) IN
         IF r = None
         THEN /\ pc' = "cn_err"
              /\ err' = FatalErr("register_new_address")
              /\ UNCHANGED <<state_tree, stack>>
         ELSE /\ state_tree' = r[1]
              /\ stack' = [stack EXCEPT ![Len(stack)].addr_id = state_tree.next_id]
              /\ pc' = "tca_set_actor"
              /\ err' = err
    /\ UNCHANGED <<base_fee, msg, kind, cost_total, sender, gas_tracker, ret,
                   pre_tree, phase, tca_calls>>

\* self.state_tree.set_actor(&addr_id, ZERO_STATE.clone()).map_err(fatal)?
TcaSetActor ==
    /\ pc = "tca_set_actor"
    /\ UNCHANGED <<tree_vars, applied, kernel_vars>>
    /\ \E fault \in BOOLEAN :
         IF fault
         THEN pc' = "cn_err" /\ state_tree' = state_tree /\ err' = FatalErr("set_actor")
         ELSE /\ state_tree' = set_actor(state_tree, Top.addr_id, ZERO_STATE)
              /\ pc' = "tca_dispatch"
              /\ err' = err
    /\ UNCHANGED <<base_fee, msg, kind, cost_total, sender, gas_tracker, stack, ret,
                   pre_tree, phase, tca_calls>>

\* mutant: the constructor message goes to another key address
ConstructorMsgElsewhere(addr, gas) ==
    [from |-> SYSTEM_ACTOR_ADDR, to |-> IF addr = B_KEY THEN T_KEY ELSE B_KEY,
     sequence |-> 0, value |-> 0, method_num |-> METHOD_CONSTRUCTOR,
     params_len |-> 1, gas_limit |-> gas, gas_fee_cap |-> 0, gas_premium |-> 0]

\* the constructor message try_create_account_actor builds for addr
ConstructorMsg(addr, gas) ==
    [from |-> SYSTEM_ACTOR_ADDR, to |-> addr, sequence |-> 0, value |-> 0,
     method_num |-> METHOD_CONSTRUCTOR, params_len |-> 1,
     gas_limit |-> gas, gas_fee_cap |-> 0, gas_premium |-> 0]

\* RawBytes::serialize(&addr)?, the constructor message, self.call_next(&msg)
TcaDispatch ==
    /\ pc = "tca_dispatch"
    /\ UNCHANGED <<tree_vars, applied, kernel_vars>>
    /\ \E ok \in BOOLEAN :
         IF ~ok
         THEN pc' = "cn_err" /\ stack' = stack /\ err' = FatalErr("serialize")
         ELSE /\ stack' = Append(stack,
                     Frame(ConstructorMsg(Top.msg.to, gas_available(gas_tracker))))
              /\ pc' = "cn_lookup"
              /\ err' = err
    /\ UNCHANGED <<state_tree, base_fee, msg, kind, cost_total, sender, gas_tracker,
                   ret, pre_tree, phase, tca_calls>>

\* back in execute_message: perform's result is dropped; todo!("return the receipt")
PerformDone ==
    /\ pc = "perform_done"
    /\ UNCHANGED <<tree_vars, applied, kernel_vars, err>>
    /\ Leave(PanicRet)
    /\ UNCHANGED <<state_tree, base_fee, msg, kind, cost_total, sender, gas_tracker,
                   stack, pre_tree, phase, tca_calls>>

Next ==
    \/ Receive
    \/ CheckMessage
    \/ PriceMessage
    \/ LoadSender
    \/ CheckAccount
    \/ CheckSequence
    \/ CheckBalance
    \/ DeductGas
    \/ Snapshot1
    \/ NewGasTracker
    \/ Snapshot2
    \/ Perform
    \/ CallNextLookup
    \/ CallNextTodo
    \/ CallNextErr
    \/ TcaChargeGas
    \/ TcaZeroCheck
    \/ TcaRegister
    \/ TcaSetActor
    \/ TcaDispatch
    \/ PerformDone
    \/ ReturnToCaller

Spec == Init /\ [][Next]_vars

TypeOK ==
    /\ pc \in {"idle", "check", "price", "load_sender", "check_account",
               "check_sequence", "check_balance", "deduct", "snapshot1",
               "new_tracker", "snapshot2", "perform", "cn_lookup", "cn_todo",
               "cn_err", "tca_charge", "tca_zero_check", "tca_register",
               "tca_set_actor", "tca_dispatch", "perform_done", "returned",
               "panicked"}
    /\ ret.kind \in {"none", "ApplyRet", "Err", "panic"}
    /\ Len(stack) <= 2

\* ------------------------------------------------------------------------
\* Properties
\* ------------------------------------------------------------------------

\* the call has got past the inclusion-cost check
PassedPrevalidation == phase \in {"Prevalidated", "SenderChecked", "GasReserved", "Executing"}

\* the call has ended, one way or the other
Ended == pc \in {"returned", "panicked"}

\* the record execute_message loaded for the sender is an account actor
SenderIsAccount == sender # None /\ sender[1].code = ACCOUNT_ACTOR_CODE_ID

\* C1: a message whose inclusion cost exceeds its gas limit is answered at
\* once with an ApplyRet carrying SysErrOutOfGas and gas_used = 0; the state
\* tree is as it was (no actor changed, no snapshot opened), no gas tracker
\* was created and CallStack::perform was not entered.
C1_PrevalidationOutOfGas ==
    (cost_total # -1 /\ cost_total > msg.gas_limit) =>
        /\ pc = "returned"
        /\ ret.kind = "ApplyRet"
        /\ ret.exit_code = "SysErrOutOfGas"
        /\ ret.gas_used = 0
        /\ state_tree = pre_tree
        /\ phase = "Received"
        /\ gas_tracker = NoTracker
        /\ stack = <<>>

C1_Witness ==
    /\ pc = "returned"
    /\ cost_total > msg.gas_limit
    /\ ret.exit_code = "SysErrOutOfGas"
    /\ base_fee > 0

\* the sender of msg is missing from the tree, or is not an account actor
SenderBad(tree, m) ==
    \/ get_actor(tree, m.from) = None
    \/ get_actor(tree, m.from)[1].code # ACCOUNT_ACTOR_CODE_ID

\* C2: once past prevalidation, a message whose sender is not in the state
\* tree or is not an account actor gets no further than the sender checks,
\* and is answered with SysErrSenderInvalid, gas_used = 0,
\* penalty = base_fee * gas_limit, the state tree unchanged.
C2_SenderInvalid ==
    (PassedPrevalidation /\ SenderBad(pre_tree, msg)) =>
        /\ pc \in {"load_sender", "check_account", "returned"}
        /\ pc = "returned" =>
              /\ ret.kind = "ApplyRet"
              /\ ret.exit_code = "SysErrSenderInvalid"
              /\ ret.gas_used = 0
              /\ ret.penalty = base_fee * msg.gas_limit
              /\ state_tree = pre_tree

C2_Witness ==
    /\ pc = "returned"
    /\ phase = "Prevalidated"
    /\ sender # None
    /\ sender[1].code = MULTISIG_ACTOR_CODE_ID
    /\ ret.exit_code = "SysErrSenderInvalid"
    /\ ret.penalty > 0

\* C3 as stated: whenever the sender exists, is an account actor and the
\* sequences differ, the answer is SysErrSenderStateInvalid with
\* penalty = base_fee * gas_limit (sender untouched).
C3_Original ==
    (/\ pc = "returned"
     /\ cost_total # -1
     /\ ~SenderBad(pre_tree, msg)
     /\ msg.sequence # get_actor(pre_tree, msg.from)[1].sequence) =>
        /\ ret.kind = "ApplyRet"
        /\ ret.exit_code = "SysErrSenderStateInvalid"
        /\ ret.penalty = base_fee * msg.gas_limit
        /\ get_actor(state_tree, msg.from) = get_actor(pre_tree, msg.from)

\* C3 (amended): a message that has passed prevalidation, whose sender was
\* loaded and is an account actor, and whose sequence differs from the
\* sender's, gets no further than the sequence check and is answered with
\* SysErrSenderStateInvalid, penalty = base_fee * gas_limit; the sender's
\* sequence and balance in the state tree are what they were.
C3_SequenceMismatch ==
    (PassedPrevalidation /\ SenderIsAccount /\ msg.sequence # sender[1].sequence) =>
        /\ pc \in {"check_account", "check_sequence", "returned"}
        /\ pc = "returned" =>
              /\ ret.kind = "ApplyRet"
              /\ ret.exit_code = "SysErrSenderStateInvalid"
              /\ ret.penalty = base_fee * msg.gas_limit
              /\ get_actor(state_tree, msg.from) = sender
              /\ get_actor(state_tree, msg.from) = get_actor(pre_tree, msg.from)

C3_Witness ==
    /\ pc = "returned"
    /\ SenderIsAccount
    /\ msg.sequence # sender[1].sequence
    /\ ret.exit_code = "SysErrSenderStateInvalid"
    /\ ret.penalty > 0

\* C4: with all earlier checks passed, a sender balance below
\* gas_fee_cap * gas_limit ends the call at the balance check: an ApplyRet
\* with penalty = base_fee * gas_limit, nothing deducted, the sequence not
\* incremented, no snapshot opened, no gas tracker, no call_next frame.
C4_BalanceTooLow ==
    (/\ PassedPrevalidation
     /\ SenderIsAccount
     /\ msg.sequence = sender[1].sequence
     /\ sender[1].balance < msg.gas_fee_cap * msg.gas_limit) =>
        /\ pc \in {"check_account", "check_sequence", "check_balance", "returned"}
        /\ phase = "Prevalidated"
        /\ state_tree = pre_tree
        /\ gas_tracker = NoTracker
        /\ stack = <<>>
        /\ pc = "returned" =>
              /\ ret.kind = "ApplyRet"
              /\ ret.gas_used = 0
              /\ ret.penalty = base_fee * msg.gas_limit

C4_Witness ==
    /\ pc = "returned"
    /\ SenderIsAccount
    /\ msg.sequence = sender[1].sequence
    /\ sender[1].balance < msg.gas_fee_cap * msg.gas_limit
    /\ ret.kind = "ApplyRet"
    /\ ret.penalty > 0

\* revert_to_snapshot until only n checkpoints are left
RECURSIVE RevertScope(_, _)
RevertScope(tree, n) ==
    IF Len(tree.snaps) <= n THEN tree
    ELSE RevertScope(revert_to_snapshot(tree), n)

\* the tree after reverting every snapshot this call has opened
RevertedTree == RevertScope(state_tree, Len(pre_tree.snaps))

\* this call has opened a snapshot that is still open
SnapshotOpen == phase \in {"GasReserved", "Executing"} /\ Len(state_tree.snaps) > Len(pre_tree.snaps)

C6_CommitOrRevert ==
    (Ended /\ phase = "Executing") =>
        /\ ret.kind \in {"ApplyRet", "Err"}
        /\ Len(state_tree.snaps) = Len(pre_tree.snaps)
        /\ ret.kind = "Err" => Layer(state_tree) = Layer(pre_tree)

\* C7: a call that has reached GasReserved does not end before it is
\* finalized: it comes back to its caller, with an ApplyRet or a fatal
\* error, having closed every snapshot it opened.
C7_ReservedCallsFinalize ==
    (Ended /\ phase \in {"GasReserved", "Executing"}) =>
        /\ pc = "returned"
        /\ ret.kind \in {"ApplyRet", "Err"}
        /\ phase = "Executing" => Len(state_tree.snaps) = Len(pre_tree.snaps)

\* the sum of the balances of the actors with IDs in ids
RECURSIVE SumBalances(_, _)
SumBalances(actors, ids) ==
    IF ids = {} THEN 0
    ELSE LET i == CHOOSE j \in ids : TRUE IN
         actors[i].balance + SumBalances(actors, ids \ {i})

TotalBalance(tree) == SumBalances(tree.actors, DOMAIN tree.actors)

\* C8: of a message that was executed, unless an internal error is handed
\* to the caller, the result is an ApplyRet and the gas_fee_cap * gas_limit
\* taken from the sender has been paid out again in full (refund, tip and
\* burns), so the balances of the tree add up to what they were.
C8_GasConservation ==
    (Ended /\ phase = "Executing" /\ ret.kind # "Err") =>
        /\ ret.kind = "ApplyRet"
        /\ TotalBalance(state_tree) = TotalBalance(pre_tree)

\* the addresses registered since the message was received
NewAddrs == (DOMAIN state_tree.addrs) \ (DOMAIN pre_tree.addrs)

\* the actor records installed since the message was received
NewActors == (DOMAIN state_tree.actors) \ (DOMAIN pre_tree.actors)

\* C9: try_create_account_actor is entered only for a receiver that
\* lookup_id does not resolve, at most once per address; it registers one
\* ID for the address and installs one account actor with sequence 0 there;
\* the call_next that follows for the same address (the constructor
\* message) resolves it to that very ID and creates nothing.
C9_AutoCreateOnce ==
    /\ \A a \in KeyAddrs : tca_calls[a] <= 1
    /\ pc = "tca_charge" => lookup_id(state_tree, Top.msg.to) = None
    /\ Cardinality(NewAddrs) <= 1
    /\ Cardinality(NewActors) <= Cardinality(NewAddrs)
    /\ \A a, b \in DOMAIN state_tree.addrs :
          state_tree.addrs[a] = state_tree.addrs[b] => a = b
    /\ \A a \in NewAddrs : tca_calls[a] = 1 /\ state_tree.addrs[a] \notin DOMAIN pre_tree.actors
    /\ \A i \in NewActors :
          /\ state_tree.actors[i].code = ACCOUNT_ACTOR_CODE_ID
          /\ state_tree.actors[i].sequence = 0
          /\ \E a \in NewAddrs : state_tree.addrs[a] = i
    /\ Len(stack) = 2 =>
          /\ stack[2].msg.to = stack[1].msg.to
          /\ pc \in {"cn_lookup", "cn_todo", "cn_err", "panicked"}
          /\ lookup_id(state_tree, stack[2].msg.to) = Some(IdAddr(stack[1].addr_id))
          /\ NewActors = {stack[1].addr_id}
          /\ tca_calls[stack[2].msg.to] = 1

C9_Witness ==
    /\ Len(stack) = 2
    /\ pc = "cn_todo"
    /\ stack[1].msg.to = T_KEY
    /\ tca_calls[T_KEY] = 1
    /\ get_actor(state_tree, T_KEY) = Some(ZERO_STATE)
    /\ get_actor(pre_tree, T_KEY) = None

\* the scenario: S (account actor, balance 1000, sequence 5) sends 10 to the
\* new signable address T: method send, gas_limit 1000000, gas_fee_cap 1,
\* gas_premium 0, sequence 5; the message is well formed and S was loaded
InScenario ==
    /\ phase # "Idle"
    /\ get_actor(pre_tree, S_ADDR) = Some(ActorState(ACCOUNT_ACTOR_CODE_ID, 1000, 5))
    /\ get_actor(pre_tree, T_KEY) = None
    /\ msg.from \in {S_ADDR, S_KEY}
    /\ msg.to = T_KEY
    /\ msg.method_num = METHOD_SEND
    /\ msg.value = 10
    /\ msg.gas_limit = 1000000
    /\ msg.gas_fee_cap = 1
    /\ msg.gas_premium = 0
    /\ msg.sequence = 5
    /\ sender # None

\* C10 as stated: the scenario's message is applied with exit code Ok, an
\* account actor exists at T's ID, S.sequence = 6 and T.balance = 10.
C10_Original ==
    (InScenario /\ Ended) =>
        /\ ret.kind = "ApplyRet"
        /\ ret.exit_code = "Ok"
        /\ get_actor(state_tree, T_KEY) # None
        /\ get_actor(state_tree, T_KEY)[1].balance = 10
        /\ get_actor(state_tree, S_ADDR)[1].sequence = 6

\* C10 (amended): the scenario's message is refused at the balance check,
\* since 1000 < 1 * 1000000: the ApplyRet has exit code
\* SysErrSenderStateInvalid, gas_used 0 and penalty base_fee * 1000000; no
\* actor is created for T, S.sequence stays 5 and S.balance stays 1000.
C10_ScenarioRefused ==
    InScenario =>
        /\ pc \in {"check_account", "check_sequence", "check_balance", "returned"}
        /\ get_actor(state_tree, T_KEY) = None
        /\ lookup_id(state_tree, T_KEY) = None
        /\ get_actor(state_tree, S_ADDR) = Some(ActorState(ACCOUNT_ACTOR_CODE_ID, 1000, 5))
        /\ pc = "returned" =>
              ret = ApplyRet("SysErrSenderStateInvalid", 0, base_fee * 1000000, 0)

C10_Witness ==
    /\ InScenario
    /\ pc = "returned"
    /\ ret.exit_code = "SysErrSenderStateInvalid"
    /\ base_fee = 1000

\* ------------------------------------------------------------------------
\* GasTracker
\* ------------------------------------------------------------------------

\* the tracker of the running message keeps used within its limit
GasWithinLimit ==
    gas_tracker # NoTracker =>
        /\ 0 <= gas_tracker.used
        /\ gas_tracker.used <= gas_tracker.limit

\* the tracker is created as (gas_limit, inclusion cost), and the charge of
\* try_create_account_actor either fails as OutOfGas, exactly when the
\* amount does not fit, charging nothing, or adds exactly the amount
ChargeLaw ==
    /\ pc = "new_tracker" =>
          gas_tracker' = [limit |-> msg.gas_limit, used |-> cost_total]
    /\ pc = "tca_charge" =>
          IF gas_tracker.used + PriceList.create_actor > gas_tracker.limit
          THEN pc' = "cn_err" /\ gas_tracker' = gas_tracker
          ELSE /\ pc' = "tca_zero_check"
               /\ gas_tracker' = [limit |-> gas_tracker.limit,
                                  used |-> gas_tracker.used + PriceList.create_actor]
    /\ (pc \notin {"new_tracker", "tca_charge", "returned"}) =>
          gas_tracker' = gas_tracker

\* C11: in every reachable state of a message execution the gas tracker,
\* created as GasTracker::new(gas_limit, inclusion cost) after
\* prevalidation, has used <= limit; charge_gas fails with OutOfGas exactly
\* when used + amount > limit, leaving used unchanged, and otherwise adds
\* exactly amount to used
C11_GasWithinLimit == [](GasWithinLimit) /\ [][ChargeLaw]_vars

\* a charge was refused as OutOfGas and nothing was charged
C11_Witness ==
    /\ pc = "cn_err"
    /\ Len(stack) = 1
    /\ msg.to \in KeyAddrs
    /\ tca_calls[msg.to] = 1
    /\ gas_tracker.used = cost_total
    /\ gas_tracker.used + PriceList.create_actor > gas_tracker.limit

\* ------------------------------------------------------------------------
\* StateTree driven directly through its operations (testing/tests/test1.rs)
\* ------------------------------------------------------------------------

\* how many snapshots are open at once
MaxSnapshots == 2

\* the largest ID register_new_address hands out
MaxId == 5

\* what a reader of the tree sees: actor records and address registrations
Observable(t) == [actors |-> t.actors, addrs |-> t.addrs]

\* note an operation in every open checkpoint
Ran(op) == [i \in 1..Len(checkpoints) |-> [checkpoints[i] EXCEPT !.ops = @ \cup {op}]]

TreeOp(op, ok) == [op |-> op, ok |-> ok, known |-> FALSE, restored |-> <<>>,
                   f |-> <<>>]

\* let act_s = ActorState::new(*INIT_ACTOR_CODE_ID, state_cid, Default::default(), 1)
act_s == ActorState(INIT_ACTOR_CODE_ID, 0, 1)

\* tree.snapshot()
TreeSnapshot ==
    /\ Len(test_tree.snaps) < MaxSnapshots
    /\ test_tree' = snapshot(test_tree)
    /\ checkpoints' = Append(checkpoints, [view |-> Observable(test_tree), ops |-> {}])
    /\ tree_op' = TreeOp("snapshot", TRUE)
    /\ UNCHANGED <<assigned, machine_vars, kernel_vars, applied>>

\* tree.set_actor(&addr, act_s), on an existing and on a new ID
TreeSetActor ==
    /\ \E a \in {S_ADDR, X_ADDR} :
          test_tree' = set_actor(test_tree, a.payload, act_s)
    /\ checkpoints' = Ran("set_actor")
    /\ tree_op' = TreeOp("set_actor", TRUE)
    /\ UNCHANGED <<assigned, machine_vars, kernel_vars, applied>>

\* the closures handed to mutate_actor: the test's (sequence = 2), which
\* cannot fail, and execute_message's, which returns the error of
\* deduct_funds, with a gas cost the account S can pay and one it cannot
Closures ==
    {[kind |-> "sequence", cost |-> 0]}
        \cup {[kind |-> "gas", cost |-> c] : c \in SenderBalances}

\* the closure f applied to the actor record act
Apply(f, act) ==
    CASE f.kind = "sequence" -> Some([act EXCEPT !.sequence = 2])
      [] f.kind = "gas" -> GasClosure(act, f.cost)

\* tree.mutate_actor(&addr, |actor| { .. }) on the account S, by its key
\* address, with each of the closures
TreeMutateActor ==
    /\ \E f \in Closures :
          LET F(act) == Apply(f, act)
              r == mutate_actor(test_tree, S_KEY, F)
          IN /\ test_tree' = IF r = None THEN test_tree ELSE r[1]
             /\ checkpoints' = IF r = None THEN checkpoints ELSE Ran("mutate_actor")
             /\ tree_op' = [TreeOp("mutate_actor", r # None) EXCEPT !.f = <<f>>]
    /\ UNCHANGED <<assigned, machine_vars, kernel_vars, applied>>

\* tree.register_new_address(&addr)
TreeRegister ==
    /\ test_tree.next_id <= MaxId
    /\ \E a \in {S_KEY, T_KEY} :
          LET r == register_new_address(test_tree, a) IN
          /\ test_tree' = IF r = None THEN test_tree ELSE r[1]
          /\ checkpoints' = IF r = None THEN checkpoints ELSE Ran("register_new_address")
          /\ assigned' = IF r = None THEN assigned
                         ELSE Append(assigned, [addr |-> a, id |-> r[1].addrs[a]])
          /\ tree_op' = [TreeOp("register_new_address", r # None)
                            EXCEPT !.known = a \in DOMAIN test_tree.addrs]
    /\ UNCHANGED <<machine_vars, kernel_vars, applied>>

\* tree.revert_to_snapshot()
TreeRevert ==
    /\ Len(test_tree.snaps) > 0
    /\ test_tree' = revert_to_snapshot(test_tree)
    /\ checkpoints' = SubSeq(checkpoints, 1, Len(checkpoints) - 1)
    /\ tree_op' = [TreeOp("revert_to_snapshot", TRUE)
                      EXCEPT !.restored = <<checkpoints[Len(checkpoints)]>>]
    /\ UNCHANGED <<assigned, machine_vars, kernel_vars, applied>>

\* tree.clear_snapshot()
TreeClear ==
    /\ Len(test_tree.snaps) > 0
    /\ test_tree' = clear_snapshot(test_tree)
    /\ checkpoints' = SubSeq(checkpoints, 1, Len(checkpoints) - 1)
    /\ tree_op' = TreeOp("clear_snapshot", TRUE)
    /\ UNCHANGED <<assigned, machine_vars, kernel_vars, applied>>

TreeNext ==
    \/ TreeSnapshot
    \/ TreeSetActor
    \/ TreeMutateActor
    \/ TreeRegister
    \/ TreeRevert
    \/ TreeClear

\* one machine at rest, its tree handed to the operations above
TreeInit ==
    /\ Init
    /\ base_fee = 0
    /\ \A b \in SenderBalances : get_actor(state_tree, S_ADDR)[1].balance <= b

TreeSpec == TreeInit /\ [][TreeNext]_vars

\* C12: snapshot law: whatever set_actor, mutate_actor and
\* register_new_address ran between snapshot() and revert_to_snapshot(),
\* the tree after the revert shows the same actor records and the same
\* address-to-ID registrations as when the snapshot was taken
C12_SnapshotLaw ==
    tree_op.op = "revert_to_snapshot" =>
        Observable(test_tree) = tree_op.restored[1].view

\* an inner scope in which all three kinds of mutation ran was reverted
C12_Witness ==
    /\ tree_op.op = "revert_to_snapshot"
    /\ tree_op.restored[1].ops = {"set_actor", "mutate_actor", "register_new_address"}
    /\ Len(test_tree.snaps) = 1
    /\ Observable(test_tree) = tree_op.restored[1].view

\* C13: over any sequence of register_new_address, snapshot,
\* revert_to_snapshot and clear_snapshot, no two registered addresses share
\* a numeric ID, IDs are handed out in strictly increasing order, so an ID
\* once assigned is never assigned again, and register_new_address fails
\* exactly for an address that is already registered
C13_IdsNeverReused ==
    /\ \A a, b \in DOMAIN test_tree.addrs :
          a # b => test_tree.addrs[a] # test_tree.addrs[b]
    /\ \A a \in DOMAIN test_tree.addrs : test_tree.addrs[a] < test_tree.next_id
    /\ \A i, j \in 1..Len(assigned) : i < j => assigned[i].id < assigned[j].id
    /\ tree_op.op = "register_new_address" => (tree_op.ok <=> ~tree_op.known)

\* an address registered inside a reverted scope was registered again and
\* got a higher ID than the first time
C13_Witness ==
    /\ Len(assigned) = 2
    /\ assigned[1].addr = assigned[2].addr
    /\ assigned[1].id < assigned[2].id
    /\ tree_op.op = "register_new_address"
    /\ tree_op.ok

\* ------------------------------------------------------------------------
\* One kernel's block operations, called in any order (BlockOps)
\* ------------------------------------------------------------------------

\* the kernel as the operations see it
Kernel == [blocks |-> blocks, blockstore |-> blockstore]

\* caller's buffers: n bytes of the caller's memory, up to one more than
\* the longest payload
Bufs == {[i \in 1..n |-> 9] : n \in 0..(MaxDataLen + 1)}

\* a content identifier nothing is stored under
MissingCid == Cid_new_v1(85, digest("identity", <<>>))

\* the call returns: the kernel and the caller's buffer hold its effects;
\* arg keeps the arguments id, offset and buf do not cover
Returns(op, id, offset, buf, arg, r) ==
    /\ blocks' = r.blocks
    /\ blockstore' = r.blockstore
    /\ syscall' = [op |-> op, id |-> id, offset |-> offset, buf |-> buf, arg |-> arg,
                   res |-> r.res, buf_out |-> r.buf]
    /\ UNCHANGED <<invocation_msg, bound_msg, machine_vars, tree_vars, applied>>

\* note what a call that returned a handle was given
Registered(op, codec, data, r) ==
    created' = IF r.res.kind = "Ok"
               THEN Append(created, [op |-> op, codec |-> codec, data |-> data])
               ELSE created

\* the caller is running: no call into the kernel is in progress
Running == syscall = NoSyscall

\* the caller takes the result and runs on; a panic unwinds the invocation
\* instead, and its kernel is not called again
Resume ==
    /\ syscall.res.kind \in {"Ok", "Err"}
    /\ syscall' = NoSyscall
    /\ UNCHANGED <<blocks, blockstore, created, invocation_msg, bound_msg,
                   machine_vars, tree_vars, applied>>

\* block_open on a stored identifier and on one nothing is stored under;
\* the registry has room for one opened block beyond the MaxBlocks created
BlockOpen ==
    /\ Running
    /\ Len(blocks) <= MaxBlocks
    /\ \E c \in (DOMAIN blockstore) \cup {MissingCid}, fault \in BOOLEAN :
          LET r == block_open(Kernel, c, fault) IN
          /\ Returns("block_open", 0, 0, <<>>, [cid |-> c, fault |-> fault], r)
          /\ Registered("block_open", c.codec, <<>>, r)

BlockCreate ==
    /\ Running
    /\ Len(blocks) < MaxBlocks
    /\ \E codec \in Codecs, data \in Datas :
          LET r == block_create(Kernel, codec, data) IN
          /\ Returns("block_create", 0, 0, <<>>, <<>>, r)
          /\ Registered("block_create", codec, data, r)

BlockLink ==
    /\ Running
    /\ \E id \in 0..MaxBlocks, hash_fun \in HashFuns, hash_len \in 0..(MaxDataLen + 1),
          fault \in BOOLEAN :
          LET r == block_link(Kernel, id, hash_fun, hash_len, fault) IN
          /\ Cardinality(DOMAIN r.blockstore) <= MaxStored
          /\ Returns("block_link", id, 0, <<>>,
                     [hash_fun |-> hash_fun, hash_len |-> hash_len, fault |-> fault], r)
          /\ UNCHANGED created

BlockRead ==
    /\ Running
    /\ \E id \in 0..MaxBlocks, offset \in 0..MaxDataLen, buf \in Bufs :
          /\ Returns("block_read", id, offset, buf, <<>>,
                     block_read(Kernel, id, offset, buf))
          /\ UNCHANGED created

BlockStat ==
    /\ Running
    /\ \E id \in 0..MaxBlocks :
          /\ Returns("block_stat", id, 0, <<>>, <<>>, block_stat(Kernel, id))
          /\ UNCHANGED created

KernelNext ==
    \/ BlockOpen
    \/ BlockCreate
    \/ BlockLink
    \/ BlockRead
    \/ BlockStat
    \/ Resume

KernelSpec == TreeInit /\ [][KernelNext]_vars

\* the block a block_read was called on
ReadBlock == blocks[syscall.id]

\* a block_read on a valid handle
ReadValid == syscall.op = "block_read" /\ syscall.id \in 1..Len(blocks)

\* C14: block_read on a valid handle with offset at or past the end of the
\* block's data returns Ok(0) and leaves the buffer as it was, whatever the
\* buffer's length (0 included): it neither fails nor panics
C14_ReadPastEnd ==
    (ReadValid /\ syscall.offset >= Len(ReadBlock.data)) =>
        /\ syscall.res = Ok(0)
        /\ syscall.buf_out = syscall.buf

\* a read exactly at the end of a non-empty block into a non-empty buffer
C14_Witness ==
    /\ ReadValid
    /\ Len(ReadBlock.data) > 0
    /\ syscall.offset = Len(ReadBlock.data)
    /\ Len(syscall.buf) > 0
    /\ syscall.res = Ok(0)
    /\ syscall.buf_out = syscall.buf

\* the bytes of the block from the read's offset on
Remaining == Len(ReadBlock.data) - syscall.offset

\* C15: block_read on a valid handle with offset below the block's size
\* returns min(buffer length, size - offset), puts exactly those bytes,
\* taken from offset on, at the front of the buffer, and does not panic
\* for any offset and buffer length
C15_ReadCopiesMin ==
    (ReadValid /\ syscall.offset < Len(ReadBlock.data)) =>
        LET n == Min(Len(syscall.buf), Remaining) IN
        /\ syscall.res = Ok(n)
        /\ Len(syscall.buf_out) = Len(syscall.buf)
        /\ SubSeq(syscall.buf_out, 1, n)
             = SubSeq(ReadBlock.data, syscall.offset + 1, syscall.offset + n)
        /\ SubSeq(syscall.buf_out, n + 1, Len(syscall.buf))
             = SubSeq(syscall.buf, n + 1, Len(syscall.buf))

\* a block_link that succeeded on a handle block_create returned
LinkedCreated ==
    /\ syscall.op = "block_link"
    /\ syscall.res.kind = "Ok"
    /\ created[syscall.id].op = "block_create"

\* C16: after block_create(codec, data) and a successful block_link of the
\* handle it returned, the block store holds exactly data under the
\* returned content identifier, and that identifier carries codec
C16_CreateLinkGet ==
    LinkedCreated =>
        /\ syscall.res.val \in DOMAIN blockstore
        /\ blockstore[syscall.res.val] = created[syscall.id].data
        /\ syscall.res.val.codec = created[syscall.id].codec

\* a created dag-cbor block was linked under a truncated hash
C16_Witness ==
    /\ LinkedCreated
    /\ created[syscall.id].codec = 113
    /\ Len(created[syscall.id].data) = MaxDataLen
    /\ size(syscall.res.val.hash) < MaxDataLen
    /\ blockstore[syscall.res.val] = created[syscall.id].data

\* a step that changes the block store is a block_link that succeeded
StoreWrittenByLink ==
    blockstore' # blockstore =>
        /\ syscall'.op = "block_link"
        /\ syscall'.res.kind = "Ok"
        /\ \A c \in DOMAIN blockstore :
              c # syscall'.res.val => (c \in DOMAIN blockstore' /\ blockstore'[c] = blockstore[c])

\* C17: block_link is the only block operation that writes to the block
\* store: block_create, block_open, block_read and block_stat leave the
\* store as it was, so a block that was registered and never linked is not
\* in the store
C17_OnlyLinkWrites == [][StoreWrittenByLink]_vars

\* a block was created and then inspected, it was never linked, and the
\* store still holds only what it held at the start
C17_Witness ==
    /\ Len(created) > 0
    /\ created[1].op = "block_create"
    /\ syscall.op = "block_stat"
    /\ syscall.res.kind = "Ok"
    /\ blockstore = InitStore
    /\ \A c \in DOMAIN blockstore : blockstore[c] # created[1].data

\* ------------------------------------------------------------------------
\* Nested sends
\* ------------------------------------------------------------------------

\* perform has returned an error: a call_next of this message failed and
\* the failure reached execute_message
SendFailed == Ended /\ phase = "Executing" /\ stack = <<>>

\* what the tree held when this call opened its first snapshot
ScopeStart == state_tree.snaps[Len(pre_tree.snaps) + 1]

\* C18: a failing send is reverted: a send whose call_next fails leaves
\* none of the mutations made inside its snapshot scope, and a fatal
\* failure of a nested send unwinds every frame and leaves the tree as it
\* was when the top-level message opened its scope (the ancestors' earlier
\* mutations, here the gas deduction, stay)
C18_FailedSendReverts ==
    SendFailed =>
        /\ Len(state_tree.snaps) > Len(pre_tree.snaps)
        /\ Layer(state_tree) = ScopeStart

\* ------------------------------------------------------------------------
\* Gas reservation
\* ------------------------------------------------------------------------

\* the numeric ID of the sender of the running message
SenderId == lookup_id(pre_tree, msg.from)[1].payload

\* C21: when a message has passed prevalidation and every sender check and
\* CallStack::perform is about to be invoked, the sender's balance is lower
\* by exactly gas_fee_cap * gas_limit and its sequence higher by exactly 1
\* than when the message was received, and no other actor record and no
\* address registration has changed
C21_ReserveExactly ==
    pc = "perform" =>
        /\ DOMAIN state_tree.actors = DOMAIN pre_tree.actors
        /\ state_tree.addrs = pre_tree.addrs
        /\ state_tree.actors[SenderId] =
              [pre_tree.actors[SenderId] EXCEPT
                  !.balance = @ - msg.gas_fee_cap * msg.gas_limit,
                  !.sequence = @ + 1]
        /\ \A i \in DOMAIN pre_tree.actors :
              i # SenderId => state_tree.actors[i] = pre_tree.actors[i]

\* perform is about to run for a message sent from S's key address, with a
\* fee cap above 1, and the whole fee has left S's balance
C21_Witness ==
    /\ pc = "perform"
    /\ msg.from = S_KEY
    /\ msg.gas_fee_cap = 2
    /\ msg.gas_limit = 10
    /\ state_tree.actors[SenderId].balance = pre_tree.actors[SenderId].balance - 20
    /\ state_tree.actors[SenderId].sequence = pre_tree.actors[SenderId].sequence + 1

\* ------------------------------------------------------------------------
\* try_create_account_actor
\* ------------------------------------------------------------------------

\* try_create_account_actor is running, or has run, for the address
Creating(a) == a \in KeyAddrs /\ tca_calls[a] > 0

\* C22: try_create_account_actor called with the BLS zero address returns
\* an error: it does not go on past its zero-address check, no numeric ID
\* is registered for the address and no actor record is installed
C22_ZeroAddressRejected ==
    Creating(BLS_ZERO) =>
        /\ pc \notin {"tca_register", "tca_set_actor", "tca_dispatch"}
        /\ BLS_ZERO \notin DOMAIN state_tree.addrs
        /\ NewActors = {}

\* the steps of try_create_account_actor that raise an error
TcaSteps == {"charge_gas", "register_new_address", "set_actor", "serialize", "call_next"}

\* try_create_account_actor is returning an error to call_next
TcaFailed == pc = "cn_err" /\ Len(stack) = 1 /\ err.by \in TcaSteps

\* C23: every failure of a step of try_create_account_actor is reported as
\* a fatal error: an error it returns is a fatal ActorError whichever step
\* raised it, and the zero-address check does fail for the zero address
C23_FailuresFatal ==
    /\ TcaFailed => (err.type = "ActorError" /\ err.fatal)
    /\ pc = "tca_register" => Top.msg.to # BLS_ZERO

\* ---- call_next on an unresolved address that names no key ----

\* the receiver of the innermost call is unresolved and not a BLS or
\* Secp256k1 address
UnresolvedNoKey ==
    /\ stack # <<>>
    /\ lookup_id(state_tree, Top.msg.to) = None
    /\ Top.msg.to.proto \notin {"BLS", "Secp256k1"}

\* a step of call_next whose lookup_id returned (Ok) for such a receiver
NotFoundStep ==
    (pc = "cn_lookup" /\ UnresolvedNoKey /\ err'.by # "lookup_id")
        => /\ pc' = "cn_err"
           /\ err' = AnyhowErr("actor not found")
           /\ state_tree' = state_tree
           /\ gas_tracker' = gas_tracker
           /\ tca_calls' = tca_calls

\* C24: call_next on a message whose receiver is unresolved and is not a
\* BLS or Secp256k1 address fails with an actor-not-found error, and
\* registers no address, creates no actor and charges no gas
C24_ActorNotFound == [][NotFoundStep]_vars

C24_Witness ==
    /\ pc = "cn_err"
    /\ UnresolvedNoKey
    /\ Top.msg.to = A_ADDR
    /\ err = AnyhowErr("actor not found")
    /\ gas_tracker.used = cost_total

\* ---- mutate_actor ----

\* the closure of the mutate_actor call this step makes, and its result on
\* the stored record of S
Mutating == tree_op'.op = "mutate_actor"
Stored(t) == get_actor(t, S_KEY)
Result == Apply(tree_op'.f[1], Stored(test_tree)[1])

MutateLaw ==
    (Mutating /\ Stored(test_tree) # None) =>
        /\ tree_op'.ok <=> Result # None
        /\ Result = None => test_tree' = test_tree
        /\ Result # None =>
              /\ Stored(test_tree') = Result
              /\ \A id \in DOMAIN test_tree.actors :
                    id # lookup_id(test_tree, S_KEY)[1].payload
                        => /\ id \in DOMAIN test_tree'.actors
                           /\ test_tree'.actors[id] = test_tree.actors[id]
        /\ (tree_op'.f[1].kind = "gas"
              /\ deduct_funds(Stored(test_tree)[1], tree_op'.f[1].cost) = None)
           => Stored(test_tree')[1].sequence = Stored(test_tree)[1].sequence

\* C25: mutate_actor(addr, f) is all-or-nothing: when f fails the stored
\* ActorState of addr is unchanged, otherwise the stored state is exactly
\* f's result; in particular, when deduct_funds fails inside
\* execute_message's closure the sender's sequence is not incremented
C25_MutateAllOrNothing == [][MutateLaw]_vars

\* execute_message's closure failed in deduct_funds on an account that had
\* funds, and the account's record stands as it was
C25_Witness ==
    /\ tree_op.op = "mutate_actor"
    /\ ~tree_op.ok
    /\ tree_op.f[1].kind = "gas"
    /\ Stored(test_tree) # None
    /\ Stored(test_tree)[1].balance > 0
    /\ Stored(test_tree)[1].balance < tree_op.f[1].cost

\* ---- block_link and the multihash it is asked for ----

\* this step is a call of block_link on a handle that names a block
Linking ==
    /\ Running
    /\ syscall'.op = "block_link"
    /\ syscall'.id \in 1..Len(blocks)

\* the bytes of the block's digest under the hash function hash_fun, none
\* when multihash does not know the function
NativeDigest(id, hash_fun) ==
    IF hash_fun = 0 THEN Some(blocks[id].data)
    ELSE IF hash_fun = 45600 THEN Some(digest("blake2b-256", blocks[id].data).bytes)
    ELSE None

LinkLaw ==
    Linking =>
        LET id == syscall'.id
            hash_len == syscall'.arg.hash_len
            d == NativeDigest(id, syscall'.arg.hash_fun)
            res == syscall'.res
        IN IF d = None \/ (d # None /\ hash_len > Len(d[1]))
           THEN /\ res = Err("InvalidMultihashSpec")
                /\ blockstore' = blockstore
           ELSE ~syscall'.arg.fault =>
                /\ res.kind = "Ok"
                /\ res.val.codec = blocks[id].codec
                /\ Len(res.val.hash.bytes) = hash_len
                /\ \A i \in 1..hash_len : res.val.hash.bytes[i] = d[1][i]

\* C26: block_link fails with InvalidMultihashSpec when the hash function
\* code is unknown or hash_len exceeds the function's native digest size,
\* and then writes nothing to the block store; for hash_len up to the
\* digest size (the store taking the write) it succeeds with an identifier
\* built from the block's codec and the digest truncated to hash_len
C26_LinkMultihashSpec == [][LinkLaw]_vars

\* a known hash function was asked for more bytes than its digest has
C26_Witness ==
    /\ syscall.op = "block_link"
    /\ syscall.id \in 1..Len(blocks)
    /\ syscall.arg.hash_fun = 45600
    /\ syscall.arg.hash_len > size(digest("blake2b-256", blocks[syscall.id].data))
    /\ syscall.res = Err("InvalidMultihashSpec")

\* ---- block_open ----

\* this step is a call of block_open
Opening == Running /\ syscall'.op = "block_open"

\* block_stat, called next on the handle block_open returned
StatOfOpened ==
    block_stat([blocks |-> blocks', blockstore |-> blockstore'], syscall'.res.val).res

OpenLaw ==
    Opening =>
        LET c == syscall'.arg.cid
            res == syscall'.res
        IN /\ syscall'.arg.fault => (res = Err("Internal") /\ blocks' = blocks)
           /\ (~syscall'.arg.fault /\ c \notin DOMAIN blockstore)
                 => (res = Err("MissingState") /\ blocks' = blocks)
           /\ (~syscall'.arg.fault /\ c \in DOMAIN blockstore)
                 => /\ res.kind = "Ok"
                    /\ res.val \notin 1..Len(blocks)
                    /\ \A id \in 1..Len(blocks) : blocks'[id] = blocks[id]
                    /\ StatOfOpened = Ok([codec |-> c.codec, size |-> Len(blockstore[c])])

\* C27: block_open(cid) fails with MissingState when the block store has no
\* entry for cid and with Internal when the store itself fails, and
\* registers no handle in either case; when the entry exists it registers
\* a fresh handle whose block_stat reports the cid's codec and the stored
\* byte length
C27_OpenRegisters == [][OpenLaw]_vars

\* a block that was created and linked is opened by its identifier, next to
\* the handle it was created under
C27_Witness ==
    /\ syscall.op = "block_open"
    /\ syscall.res = Ok(2)
    /\ Len(blocks) = 2
    /\ blocks[2].data # <<>>
    /\ blocks[2] = blocks[1]
    /\ block_stat(Kernel, 2).res
          = Ok([codec |-> syscall.arg.cid.codec, size |-> Len(blockstore[syscall.arg.cid])])

\* ------------------------------------------------------------------------
\* DefaultKernel: creation, ActorOps and InvocationOps
\* (fvm/src/kernel/default.rs)
\* ------------------------------------------------------------------------

\* the messages a Kernel is created for: sender and receiver given by ID
\* address or by key address, registered or not, with and without an actor
InvocationMsgs ==
    [from : {S_ADDR, S_KEY, T_KEY},
     to : {S_KEY, M_ADDR, X_ADDR, T_KEY},
     sequence : {5},
     value : {0, 10},
     method_num : {METHOD_SEND, METHOD_CONSTRUCTOR},
     params_len : {0},
     gas_limit : {10},
     gas_fee_cap : {1},
     gas_premium : {0}]

\* the state roots an actor sets: content identifiers, named by number
\* (ActorState::new is given number 0)
StateRoots == {1, 2}

\* mutant: a receiver that cannot be resolved is registered
kernel_create_registering(tree, m, fault) ==
    LET f == lookup_id(tree, m.from)
        t == lookup_id(tree, m.to)
    IN IF fault THEN [res |-> Err("lookup_id"), kernel |-> None, tree |-> tree]
       ELSE IF f = None
       THEN [res |-> Err("failed to lookup from id address"), kernel |-> None,
             tree |-> tree]
       ELSE IF t = None
       THEN LET r == register_new_address(tree, m.to)[1] IN
            [res |-> Ok("Kernel"),
             kernel |-> Some([m EXCEPT !.from = f[1], !.to = IdAddr(r.addrs[m.to])]),
             tree |-> r]
       ELSE [res |-> Ok("Kernel"),
             kernel |-> Some([m EXCEPT !.from = f[1], !.to = t[1]]),
             tree |-> tree]

\* DefaultKernel::create: the result, the Kernel's invocation_msg (None
\* when no Kernel is produced) and the call stack's state tree afterwards
kernel_create(tree, m, fault) ==
    LET f == lookup_id(tree, m.from)
        t == lookup_id(tree, m.to)
    IN IF fault THEN [res |-> Err("lookup_id"), kernel |-> None, tree |-> tree]
       ELSE IF f = None
       THEN [res |-> Err("failed to lookup from id address"), kernel |-> None,
             tree |-> tree]
       ELSE IF t = None
       THEN [res |-> Err("failed to lookup to id address"), kernel |-> None,
             tree |-> tree]
       ELSE [res |-> Ok("Kernel"),
             kernel |-> Some([m EXCEPT !.from = f[1], !.to = t[1]]),
             tree |-> tree]

\* fn root(&self): get_actor(addr).unwrap().expect(..) panics when the
\* lookup fails and when the receiver has no actor record
root(tree, m, fault) ==
    LET a == get_actor(tree, m.to) IN
    IF fault \/ a = None THEN Panicked ELSE Ok(a[1].state)

\* mutant: the closure also resets the actor's sequence
SetStateAndSequence(actor_state, new) ==
    Some([actor_state EXCEPT !.state = new, !.sequence = 0])

\* |actor_state| { actor_state.state = new; Ok(()) }
SetState(actor_state, new) == Some([actor_state EXCEPT !.state = new])

\* fn set_root(&mut self, new): the result and the state tree afterwards
set_root(tree, m, new, fault) ==
    LET F(actor_state) == SetState(actor_state, new)
        r == IF fault THEN None ELSE mutate_actor(tree, m.to, F)
    IN IF r = None THEN [res |-> Err("mutate_actor"), tree |-> tree]
       ELSE [res |-> Ok("unit"), tree |-> r[1]]

\* the machine's variables other than the state tree
machine_rest == <<base_fee, pc, msg, kind, cost_total, sender, gas_tracker, stack,
                  ret, pre_tree, phase, tca_calls, err>>

\* the call returns res to the caller
Answers(op, arg, res) ==
    syscall' = [op |-> op, id |-> 0, offset |-> 0, buf |-> <<>>, arg |-> arg,
                res |-> res, buf_out |-> <<>>]

\* DefaultKernel::create(machine, call_stack, invocation_msg): the Kernel of
\* the next invocation, with a registry of its own
KernelCreate ==
    /\ Running
    /\ \E m \in InvocationMsgs, fault \in BOOLEAN :
          LET r == kernel_create(state_tree, m, fault) IN
          /\ invocation_msg' = r.kernel
          /\ bound_msg' = IF r.kernel = None THEN None ELSE Some(m)
          /\ state_tree' = r.tree
          /\ Answers("create", [msg |-> m, fault |-> fault], r.res)
    /\ blocks' = <<>>
    /\ created' = <<>>
    /\ UNCHANGED <<blockstore, machine_rest, tree_vars, applied>>

\* fn method_number(&self)
MethodNumber ==
    /\ Running
    /\ invocation_msg # None
    /\ Answers("method_number", <<>>, Ok(invocation_msg[1].method_num))
    /\ UNCHANGED <<blocks, blockstore, created, invocation_msg, bound_msg,
                   machine_vars, tree_vars, applied>>

\* fn method_params(&self): 0 (TODO)
MethodParams ==
    /\ Running
    /\ invocation_msg # None
    /\ Answers("method_params", <<>>, Ok(0))
    /\ UNCHANGED <<blocks, blockstore, created, invocation_msg, bound_msg,
                   machine_vars, tree_vars, applied>>

\* fn caller(&self): invocation_msg.from.id().expect(..)
Caller ==
    /\ Running
    /\ invocation_msg # None
    /\ Answers("caller", <<>>,
               IF invocation_msg[1].from.proto = "ID"
               THEN Ok(invocation_msg[1].from.payload) ELSE Panicked)
    /\ UNCHANGED <<blocks, blockstore, created, invocation_msg, bound_msg,
                   machine_vars, tree_vars, applied>>

\* fn receiver(&self): invocation_msg.to.id().expect(..)
Receiver ==
    /\ Running
    /\ invocation_msg # None
    /\ Answers("receiver", <<>>,
               IF invocation_msg[1].to.proto = "ID"
               THEN Ok(invocation_msg[1].to.payload) ELSE Panicked)
    /\ UNCHANGED <<blocks, blockstore, created, invocation_msg, bound_msg,
                   machine_vars, tree_vars, applied>>

\* fn value_received(&self): 0 (TODO, invocation_msg.value is not read)
ValueReceived ==
    /\ Running
    /\ invocation_msg # None
    /\ Answers("value_received", <<>>, Ok(0))
    /\ UNCHANGED <<blocks, blockstore, created, invocation_msg, bound_msg,
                   machine_vars, tree_vars, applied>>

\* fn root(&self)
Root ==
    /\ Running
    /\ invocation_msg # None
    /\ \E fault \in BOOLEAN :
          Answers("root", [fault |-> fault], root(state_tree, invocation_msg[1], fault))
    /\ UNCHANGED <<blocks, blockstore, created, invocation_msg, bound_msg,
                   machine_vars, tree_vars, applied>>

\* fn set_root(&mut self, new)
SetRoot ==
    /\ Running
    /\ invocation_msg # None
    /\ \E new \in StateRoots, fault \in BOOLEAN :
          LET r == set_root(state_tree, invocation_msg[1], new, fault) IN
          /\ state_tree' = r.tree
          /\ Answers("set_root", [new |-> new, fault |-> fault], r.res)
    /\ UNCHANGED <<blocks, blockstore, created, invocation_msg, bound_msg,
                   machine_rest, tree_vars, applied>>

InvocationNext ==
    \/ KernelCreate
    \/ MethodNumber
    \/ MethodParams
    \/ Caller
    \/ Receiver
    \/ ValueReceived
    \/ Root
    \/ SetRoot
    \/ Resume

\* one machine at rest; Kernels are created over its state tree and called
InvocationSpec == TreeInit /\ [][InvocationNext]_vars

\* this step is a call of DefaultKernel::create whose lookups did not fail
CreatingKernel == Running /\ syscall'.op = "create" /\ ~syscall'.arg.fault

CreateLaw ==
    CreatingKernel =>
        LET m == syscall'.arg.msg
            f == lookup_id(state_tree, m.from)
            t == lookup_id(state_tree, m.to)
        IN /\ state_tree' = state_tree
           /\ IF f = None \/ t = None
              THEN syscall'.res.kind = "Err" /\ invocation_msg' = None
              ELSE /\ syscall'.res.kind = "Ok"
                   /\ invocation_msg' # None
                   /\ invocation_msg'[1].from = f[1]
                   /\ invocation_msg'[1].to = t[1]
                   /\ invocation_msg'[1].from.proto = "ID"
                   /\ invocation_msg'[1].to.proto = "ID"

\* C28: DefaultKernel::create resolves both the from and the to address of
\* the bound message to numeric-ID form through the call stack's state tree
\* and fails, producing no Kernel, when either address cannot be resolved;
\* creation never registers an address or otherwise changes the state tree
C28_CreateResolves ==
    [][CreateLaw /\ (syscall'.op = "create" => state_tree' = state_tree)]_vars

\* creation failed for a receiver no ID is registered for, after the sender
\* was resolved: there is no Kernel, and the address is still unregistered
C28_Witness ==
    /\ syscall.op = "create"
    /\ syscall.arg.msg.from = S_KEY
    /\ syscall.arg.msg.to = T_KEY
    /\ syscall.res = Err("failed to lookup to id address")
    /\ invocation_msg = None
    /\ T_KEY \notin DOMAIN state_tree.addrs

\* this step is a call of one of the invocation-context operations
Projecting ==
    /\ Running
    /\ syscall'.op \in {"method_number", "caller", "receiver", "value_received"}

ProjectionLaw ==
    Projecting =>
        LET m == bound_msg[1]
            op == syscall'.op
            res == syscall'.res
        IN /\ UNCHANGED <<machine_vars, tree_vars, applied, blocks, blockstore, created,
                          invocation_msg, bound_msg>>
           /\ op = "method_number" => res = Ok(m.method_num)
           /\ op = "caller" => res = Ok(lookup_id(state_tree, m.from)[1].payload)
           /\ op = "receiver" => res = Ok(lookup_id(state_tree, m.to)[1].payload)
           /\ op = "value_received" => res = Ok(m.value)

\* C29: the invocation-context operations of a Kernel are read-only
\* projections of the message it was bound to: method_number returns
\* msg.method_num, caller the resolved ID of msg.from, receiver the resolved
\* ID of msg.to and value_received msg.value; none of them changes any state
C29_ReadOnlyProjections == [][ProjectionLaw]_vars

\* this step is a call of set_root that returned Ok
RootSet == Running /\ syscall'.op = "set_root" /\ syscall'.res.kind = "Ok"

\* the numeric ID of the Kernel's receiver
ReceiverId == invocation_msg[1].to.payload

SetRootLaw ==
    /\ RootSet =>
          LET old == state_tree.actors[ReceiverId]
              now == state_tree'.actors[ReceiverId]
          IN /\ now.state = syscall'.arg.new
             /\ now.code = old.code
             /\ now.balance = old.balance
             /\ now.sequence = old.sequence
             /\ DOMAIN state_tree'.actors = DOMAIN state_tree.actors
             /\ \A id \in DOMAIN state_tree.actors :
                   id # ReceiverId => state_tree'.actors[id] = state_tree.actors[id]
             /\ state_tree'.addrs = state_tree.addrs
             /\ root(state_tree', invocation_msg'[1], FALSE) = Ok(syscall'.arg.new)
    /\ (Running /\ syscall'.op = "set_root" /\ syscall'.res.kind # "Ok")
          => state_tree' = state_tree

\* C30: set_root(new) changes only the state field of the receiver's
\* ActorState: the receiver's code, balance and sequence and every other
\* actor's record are unchanged, and a following root() on the same Kernel
\* returns new
C30_SetRootOnlyState == [][SetRootLaw]_vars

\* the receiver's root was set after another actor's root had been set
\* through an earlier Kernel: each actor holds the root it was given, and
\* the receiver still has its balance and sequence
C30_Witness ==
    /\ syscall.op = "set_root"
    /\ syscall.res.kind = "Ok"
    /\ syscall.arg.new = 2
    /\ ReceiverId = 2
    /\ state_tree.actors[2].state = 2
    /\ state_tree.actors[2].sequence = 5
    /\ state_tree.actors[2].balance > 0
    /\ state_tree.actors[1].state = 1

\* ------------------------------------------------------------------------
\* Gas spent by a send that fails
\* ------------------------------------------------------------------------

\* a call_next of the running message has failed and its error is on its
\* way out, or has reached execute_message
Unwinding == pc \in {"cn_err", "perform_done"}

GasRetained ==
    /\ (gas_tracker # NoTracker /\ pc # "returned")
          => gas_tracker'.used >= gas_tracker.used
    /\ Unwinding => gas_tracker' = gas_tracker

BuiltinNames ==
    <<"fil/7/system", "fil/7/init", "fil/7/cron", "fil/7/account",
      "fil/7/storagepower", "fil/7/storageminer", "fil/7/storagemarket",
      "fil/7/paymentchannel", "fil/7/multisig", "fil/7/reward",
      "fil/7/verifiedregistry", "fil/7/chaos">>

\* the names as a set
NameSet == {BuiltinNames[i] : i \in 1..Len(BuiltinNames)}

\* byte strings that are not the name of a built-in actor
OtherNames == {"fil/7/other", "fil/6/account", "fil/7/accoun", ""}

\* const IPLD_RAW: u64 = 0x55
IPLD_RAW == 85

\* fn make_builtin(bz): Cid::new_v1(IPLD_RAW, Code::Identity.digest(bz))
make_builtin(bz) == Cid_new_v1(IPLD_RAW, digest("identity", bz))

\* the match arms of actor_name_by_code whose guard holds for code
MatchingArms(code) ==
    {i \in 1..Len(BuiltinNames) : code = make_builtin(BuiltinNames[i])}

\* mutant: the arms are those of is_builtin_actor, which has none for chaos
actor_name_by_builtin(code) ==
    LET arms == MatchingArms(code) \ {Len(BuiltinNames)} IN
    IF arms = {} THEN Err("is not a valid code")
    ELSE Ok(BuiltinNames[CHOOSE i \in arms : \A j \in arms : i <= j])

\* fn actor_name_by_code(code): the name of the first arm that matches
actor_name_by_code(code) ==
    LET arms == MatchingArms(code) IN
    IF arms = {} THEN Err("is not a valid code")
    ELSE Ok(BuiltinNames[CHOOSE i \in arms : \A j \in arms : i <= j])

\* content identifiers to look up: those of the names and of other byte
\* strings, under the raw codec and others, identity-hashed and not
CodeInputs ==
    {Cid_new_v1(c, [code |-> h, bytes |-> b]) :
        c \in Codecs \cup {0}, h \in {"identity", "blake2b-256"},
        b \in NameSet \cup OtherNames}

\* make_builtin(bz)
MakeBuiltin ==
    /\ \E bz \in NameSet \cup OtherNames :
          applied' = [op |-> "make_builtin", arg |-> bz, res |-> make_builtin(bz)]
    /\ UNCHANGED <<machine_vars, tree_vars, kernel_vars>>

\* actor_name_by_code(code)
ActorNameByCode ==
    /\ \E code \in CodeInputs :
          applied' = [op |-> "actor_name_by_code", arg |-> code,
                      res |-> actor_name_by_code(code)]
    /\ UNCHANGED <<machine_vars, tree_vars, kernel_vars>>

CodesNext ==
    \/ MakeBuiltin
    \/ ActorNameByCode

CodesSpec == TreeInit /\ [][CodesNext]_vars

\* the content identifier of a name: raw codec, identity hash of the name
IdentityCid(name) ==
    [codec |-> 85, hash |-> [code |-> "identity", bytes |-> name]]

\* C32: the built-in code registry is a pure injective mapping: each of the
\* twelve actor names maps to the identity-hash content identifier of that
\* name, distinct names give distinct identifiers, and actor_name_by_code
\* applied to the identifier of a name returns that name and fails for
\* every other identifier
C32_CodeRegistry ==
    /\ Cardinality(NameSet) = 12
    /\ \A a, b \in NameSet : a # b => make_builtin(a) # make_builtin(b)
    /\ (applied.op = "make_builtin" /\ applied.arg \in NameSet)
          => applied.res = IdentityCid(applied.arg)
    /\ applied.op = "actor_name_by_code" =>
          IF \E n \in NameSet : applied.arg = IdentityCid(n)
          THEN applied.res = Ok(applied.arg.hash.bytes)
          ELSE applied.res.kind = "Err"

\* the last name of the list was found by its identifier
C32_Witness ==
    /\ applied.op = "actor_name_by_code"
    /\ applied.arg = IdentityCid("fil/7/chaos")
    /\ applied.res = Ok("fil/7/chaos")

\* ------------------------------------------------------------------------
\* InvocationContainer's return stack (fvm/src/invocation.rs)
\* ------------------------------------------------------------------------

\* the deepest return stack
MaxReturns == 2

\* type ReturnEntry = (bool, Vec<u8>)
ReturnEntries == {<<ok, data>> : ok \in BOOLEAN, data \in Datas}

\* return_stack: VecDeque<ReturnEntry>, the back being the top
ReturnStacks ==
    UNION {[1..n -> ReturnEntries] : n \in 0..MaxReturns}

\* mutant: the entry described is the one at the front
return_desc_front(return_stack) ==
    IF return_stack = <<>> THEN 0
    ELSE LET e == return_stack[1] IN
         IF ~e[1] THEN -1 ELSE Len(e[2])

\* fn return_desc(&self): return_stack.back().map_or(0, |e| ..)
return_desc(return_stack) ==
    IF return_stack = <<>> THEN 0
    ELSE LET e == return_stack[Len(return_stack)] IN
         IF ~e[1] THEN -1 ELSE Len(e[2])

\* VecDeque::pop_back: the stack afterwards
pop_back(return_stack) ==
    IF return_stack = <<>> THEN <<>>
    ELSE SubSeq(return_stack, 1, Len(return_stack) - 1)

\* fn return_discard(&mut self)
return_discard(return_stack) == pop_back(return_stack)

\* fn return_pop(&mut self, into): into is not written
return_pop(return_stack, into) == pop_back(return_stack)

ReturnDesc ==
    /\ \E st \in ReturnStacks :
          applied' = [op |-> "return_desc", arg |-> [stack |-> st, into |-> <<>>],
                      res |-> return_desc(st)]
    /\ UNCHANGED <<machine_vars, tree_vars, kernel_vars>>

ReturnDiscard ==
    /\ \E st \in ReturnStacks :
          applied' = [op |-> "return_discard", arg |-> [stack |-> st, into |-> <<>>],
                      res |-> return_discard(st)]
    /\ UNCHANGED <<machine_vars, tree_vars, kernel_vars>>

\* return_pop with a buffer that has room for the longest entry
ReturnPop ==
    /\ \E st \in ReturnStacks, into \in {b \in Bufs : Len(b) > MaxDataLen} :
          applied' = [op |-> "return_pop", arg |-> [stack |-> st, into |-> into],
                      res |-> return_pop(st, into)]
    /\ UNCHANGED <<machine_vars, tree_vars, kernel_vars>>

ContainerNext ==
    \/ ReturnDesc
    \/ ReturnDiscard
    \/ ReturnPop

ContainerSpec == TreeInit /\ [][ContainerNext]_vars

\* the stack an operation was called on, and its top entry
CalledOn == applied.arg.stack
TopEntry == CalledOn[Len(CalledOn)]

\* C33: return_desc describes the top of the return stack: -1 when the top
\* entry is an error, 0 when there is no entry, otherwise the length of the
\* top entry's data; return_discard and return_pop each remove exactly the
\* top entry, leave the entries below unchanged and do nothing on an empty
\* stack
C33_ReturnStack ==
    /\ applied.op = "return_desc" =>
          /\ CalledOn = <<>> => applied.res = 0
          /\ (CalledOn # <<>> /\ ~TopEntry[1]) => applied.res = -1
          /\ (CalledOn # <<>> /\ TopEntry[1]) => applied.res = Len(TopEntry[2])
    /\ applied.op \in {"return_discard", "return_pop"} =>
          /\ CalledOn = <<>> => applied.res = <<>>
          /\ CalledOn # <<>> =>
                /\ Len(applied.res) = Len(CalledOn) - 1
                /\ \A i \in 1..Len(applied.res) : applied.res[i] = CalledOn[i]

\* an error entry on top of an entry with data is described as -1
C33_Witness ==
    /\ applied.op = "return_desc"
    /\ Len(CalledOn) = 2
    /\ CalledOn[1][1]
    /\ Len(CalledOn[1][2]) = 2
    /\ ~TopEntry[1]
    /\ applied.res = -1

\* ------------------------------------------------------------------------
\* C34: every snapshot that execute_message opens on the state tree is
\* closed before the call is over, so the tree's snapshot depth at the end of
\* a call equals its depth at the start of that call
\* ------------------------------------------------------------------------
C34_SnapshotBalance ==
    Ended => Len(state_tree.snaps) = Len(pre_tree.snaps)

\* ------------------------------------------------------------------------
\* The order of execute_message's checks
\* ------------------------------------------------------------------------

\* the exit code and the penalty of the first check that fails, taking the
\* checks in the order inclusion cost, sender loaded, sender an account
\* actor, sequence, balance ("none" when all of them pass)
FirstFailing ==
    IF cost_total > msg.gas_limit
    THEN <<"SysErrOutOfGas", base_fee * cost_total>>
    ELSE IF sender = None
    THEN <<"SysErrSenderInvalid", base_fee * msg.gas_limit>>
    ELSE IF sender[1].code # ACCOUNT_ACTOR_CODE_ID
    THEN <<"SysErrSenderInvalid", base_fee * msg.gas_limit>>
    ELSE IF msg.sequence # sender[1].sequence
    THEN <<"SysErrSenderStateInvalid", base_fee * msg.gas_limit>>
    ELSE IF sender[1].balance < msg.gas_fee_cap * msg.gas_limit
    THEN <<"SysErrSenderStateInvalid", base_fee * msg.gas_limit>>
    ELSE <<"none", 0>>

\* the local sender is the record the tree holds for msg.from; it is unbound
\* when the tree holds none (or when the message was refused before the load)
SenderAsLoaded ==
    /\ sender # None => sender = get_actor(state_tree, msg.from)
    /\ get_actor(state_tree, msg.from) = None => sender = None

\* C35: the ApplyRet that execute_message returns carries the exit code and
\* the penalty of the first failing check in the order inclusion cost above
\* gas_limit, sender missing, sender not an account actor, sequence
\* mismatch, balance too low; a message that is too costly and whose sender
\* is missing is answered with SysErrOutOfGas.
C35_CheckPrecedence ==
    (pc = "returned" /\ ret.kind = "ApplyRet") =>
        /\ SenderAsLoaded
        /\ FirstFailing[1] # "none"
        /\ <<ret.exit_code, ret.penalty>> = FirstFailing

\* a message that is too costly and comes from an address without an actor
\* record, answered with the out-of-gas result
C35_Witness ==
    /\ pc = "returned"
    /\ cost_total > msg.gas_limit
    /\ get_actor(state_tree, msg.from) = None
    /\ ret.exit_code = "SysErrOutOfGas"

\* C36: a refusal for an inclusion cost above gas_limit has
\* penalty = base_fee * inclusion cost, miner_tip = 0 and empty return data;
\* a refusal by a sender check has penalty = base_fee * gas_limit,
\* miner_tip = 0, gas_used = 0 and empty return data.
C36_PrevalidationPenalty ==
    (pc = "returned" /\ ret.kind = "ApplyRet") =>
        /\ ret.miner_tip = 0
        /\ ret.return_data = 0
        /\ IF ret.exit_code = "SysErrOutOfGas"
           THEN ret.penalty = base_fee * on_chain_message(ser_len(msg))
           ELSE /\ ret.exit_code \in {"SysErrSenderInvalid", "SysErrSenderStateInvalid"}
                /\ ret.penalty = base_fee * msg.gas_limit
                /\ ret.gas_used = 0

\* an out-of-gas refusal whose penalty differs from base_fee * gas_limit
C36_Witness ==
    /\ pc = "returned"
    /\ ret.exit_code = "SysErrOutOfGas"
    /\ ret.penalty = base_fee * cost_total
    /\ ret.penalty > base_fee * msg.gas_limit

\* ------------------------------------------------------------------------
\* ApplyKind
\* ------------------------------------------------------------------------

\* the ApplyRet of the first failing check, from the message, the base fee
\* and the sender's record alone
Refusal ==
    [kind |-> "ApplyRet", exit_code |-> FirstFailing[1], gas_used |-> 0,
     penalty |-> FirstFailing[2], miner_tip |-> 0, return_data |-> 0]

\* the sender's record once the maximum gas cost is reserved
Reserved ==
    [sender[1] EXCEPT !.balance = @ - msg.gas_fee_cap * msg.gas_limit,
                      !.sequence = @ + 1]

\* C37: what execute_message returns and what it does to the state tree is
\* given by the message and the machine's state, whatever the ApplyKind: a
\* message of either kind is refused by the first failing check, gets past
\* the sender checks only when none fails, and has the maximum gas cost
\* deducted from its sender (whose sequence is incremented) before it runs.
C37_KindIndependence ==
    /\ (pc = "returned" /\ ret.kind = "ApplyRet") => ret = Refusal
    /\ phase \in {"SenderChecked", "GasReserved", "Executing"} =>
          FirstFailing[1] = "none"
    /\ phase \in {"GasReserved", "Executing"} =>
          get_actor(state_tree, msg.from) = Some(Reserved)

\* an Implicit message whose sender has paid for the gas
C37_Witness ==
    /\ kind = "Implicit"
    /\ phase = "Executing"
    /\ msg.gas_fee_cap * msg.gas_limit > 0
    /\ get_actor(state_tree, msg.from) = Some(Reserved)

\* ------------------------------------------------------------------------
\* The recursion call_next / try_create_account_actor
\* ------------------------------------------------------------------------

\* a call of execute_message, once started, runs on: the thread executes its
\* next statement (the caller is free not to send another message)
LiveSpec == Spec /\ WF_vars(pc # "idle" /\ Next)

\* inside try_create_account_actor, before the constructor message is sent
InCreate == pc \in {"tca_charge", "tca_zero_check", "tca_register",
                    "tca_set_actor", "tca_dispatch"}

\* the call_next made by try_create_account_actor has its receiver
\* registered, and there is no call_next below it
NestedResolves ==
    /\ Len(stack) <= 2
    /\ Len(stack) = 2 =>
          /\ stack[2].msg.method_num = METHOD_CONSTRUCTOR
          /\ lookup_id(state_tree, stack[2].msg.to) # None
          /\ Route(state_tree, stack[2].msg.to) = "resolved"
          /\ ~InCreate
    /\ InCreate => Len(stack) = 1

\* C38: the constructor message that try_create_account_actor sends through
\* call_next goes to an address that is registered by then, so the nested
\* call_next resolves it and does not enter try_create_account_actor; the
\* recursion is at most one level deep and every receiver resolution that
\* enters try_create_account_actor comes to an end.
C38_BoundedReentrancy ==
    /\ []NestedResolves
    /\ (pc = "tca_charge") ~> (pc \in {"panicked", "returned"})

\* the nested call_next, its receiver resolved, about to go on
C38_Witness ==
    /\ Len(stack) = 2
    /\ pc = "cn_todo"
    /\ stack[2].msg.to = B_KEY
    /\ stack[2].msg.from = SYSTEM_ACTOR_ADDR
    /\ lookup_id(pre_tree, B_KEY) = None

\* ------------------------------------------------------------------------
\* try_create_account_actor: the charge comes first
\* ------------------------------------------------------------------------

\* the creation charge of this call was refused
ChargeRefused == err = ChargeErr

\* C39: try_create_account_actor charges the creation gas before it touches
\* the state tree: nothing is registered or installed until the charge is
\* through; a refused charge leaves no address registered, no actor
\* installed, used as it was and no constructor message sent; after a charge
\* that went through, the constructor message's gas_limit is limit - used.
C39_ChargeFirst ==
    /\ pc = "tca_charge" =>
          /\ NewAddrs = {} /\ NewActors = {}
          /\ gas_tracker.used = cost_total
    /\ ChargeRefused =>
          /\ NewAddrs = {} /\ NewActors = {}
          /\ gas_tracker.used = cost_total
          /\ gas_tracker.used + on_create_actor > gas_tracker.limit
          /\ Len(stack) <= 1
          /\ pc \in {"cn_err", "perform_done", "panicked"}
    /\ (NewAddrs # {} \/ Len(stack) = 2) =>
          /\ gas_tracker.used = cost_total + on_create_actor
          /\ gas_tracker.used <= gas_tracker.limit
    /\ Len(stack) = 2 =>
          stack[2].msg.gas_limit = gas_tracker.limit - gas_tracker.used

\* a refused creation charge: the call is over and nothing was created
C39_Witness ==
    /\ ChargeRefused
    /\ pc = "panicked"
    /\ msg.to \in {T_KEY, B_KEY, BLS_ZERO}
    /\ lookup_id(state_tree, msg.to) = None
    /\ gas_tracker.used = cost_total
    /\ gas_tracker.limit = msg.gas_limit

\* ------------------------------------------------------------------------
\* C40: for every Kernel that DefaultKernel::create returns,
\* invocation_msg.from and invocation_msg.to are ID addresses as long as the
\* Kernel lives, so caller() and receiver() do not panic, and root() does
\* not panic with "expected invoked actor to exist" (no actor is ever
\* removed from the state tree here)
\* ------------------------------------------------------------------------
C40_AccessorsNeverPanic ==
    /\ invocation_msg # None =>
          /\ invocation_msg[1].from.proto = "ID"
          /\ invocation_msg[1].to.proto = "ID"
    /\ syscall.op \in {"caller", "receiver"} => syscall.res.kind = "Ok"
    /\ (syscall.op = "root" /\ ~syscall.arg.fault) => syscall.res # Panicked

====
